---- MODULE Spec2Model ----
(***************************************************************************)
(* Model of the message aggregator backend (src/backend): the conversation *)
(* state engine of main.py over the tables of crud.py, the reactivation    *)
(* sweep, the websocket ConnectionManager, the Redis read-through cache of *)
(* crud.py/cache.py and the circuit breaker of ai_processor.py.            *)
(*                                                                         *)
(* Every await of the source is a point where another coroutine may run,   *)
(* so a handler is a sequence of steps, one per awaited database or        *)
(* network operation, with its local variables kept in a process record.   *)
(***************************************************************************)
EXTENDS Integers, Sequences, FiniteSets, TLC

\* ------------------------------------------------------------------ bounds
MaxOps == 2            \* handler and endpoint invocations started in one behaviour
MaxChats == 2          \* rows of the chats table
MaxTime == 2           \* clock readings, in units of the silence threshold
MaxCalls == 5          \* process_message calls started in one behaviour
MaxObservers == 3      \* websocket handles that ever connect
MaxBroadcasts == 2     \* broadcast calls started in one behaviour
MaxUpdates == 2        \* updates that arrive at the upstream platform
MaxCrashes == 1        \* restarts of the process
MaxRows == 3           \* rows of the messages table of the ordered read
MaxStamp == 1          \* values of created_at in the ordered read

\* ------------------------------------------------------- program constants
max_retries == 3           \* config.py: MAX_RETRIES default
stop_after_attempt == 3    \* ai_processor.py: tenacity stop_after_attempt(3)
SilenceThreshold == 1      \* main.py: timedelta(minutes=10), one unit of the clock

None == "None"

VARIABLES
    \* the database (crud.py) and the conversation engine (main.py)
    chats,              \* table chats: a sequence of rows, id = position
    messages,           \* table messages: a sequence of rows, id = position
    proc,               \* one record per coroutine: a handler or an endpoint call
    sweep,              \* the coroutine of auto_ai_reactivation_task
    now,                \* the clock read by func.now() and datetime.utcnow()
    telegramSent,       \* what was handed to the Telegram send API
    nops,               \* number of handler and endpoint invocations started
    \* CacheService (cache.py)
    redis,              \* self.redis is a live connection
    cache,              \* the keys of the Redis database
    \* AIProcessor (ai_processor.py)
    failure_count,      \* self.failure_count
    circuit_open,       \* self.circuit_open
    caller,             \* one record per coroutine inside process_message
    dcalls,             \* number of process_message calls started
    consec,             \* history: failed calls completed since the last success
    totalFails,         \* history: failed calls completed in all
    \* ConnectionManager (main.py)
    active_connections, \* self.active_connections, a list
    bc,                 \* the broadcast call in progress
    broken,             \* handles whose send_text raises
    everConnected,      \* handles that have been accepted so far
    nbroadcasts,        \* number of broadcast calls started
    stalled,            \* handles whose send_text never completes
    handlers,           \* handles whose websocket endpoint is still running
    \* telegram_polling_task (main.py) and the upstream platform
    poller,             \* the loop: its position, offset and fetched batch
    upstream,           \* the platform's updates not yet confirmed
    arrived,            \* number of updates the platform has received
    handled,            \* history: ids of the updates handled, in order
    crashes,            \* number of restarts so far
    \* get_messages' SELECT (crud.py)
    stamped,            \* rows of messages with their created_at, id = position
    message_list        \* the rows the last SELECT returned, in its order

dispVars == <<failure_count, circuit_open, caller, dcalls, consec, totalFails>>
hubVars == <<active_connections, bc, broken, everConnected, nbroadcasts,
             stalled, handlers>>
pollVars == <<poller, upstream, arrived, handled, crashes>>
ordVars == <<stamped, message_list>>
engVars == <<chats, messages, proc, sweep, now, telegramSent, nops>>
cacheVars == <<redis, cache>>
vars == <<engVars, cacheVars, dispVars, hubVars, pollVars, ordVars>>
notDisp == <<engVars, cacheVars, hubVars, pollVars, ordVars>>
notHub == <<engVars, cacheVars, dispVars, pollVars, ordVars>>
notEng == <<dispVars, hubVars, pollVars, ordVars>>

\* ======================================================================
\* Circuit-breaking dispatcher: ai_processor.py
\* ======================================================================
Callers == {"c1", "c2"}

\* Bodies the backend may answer with (response.json() of parse_response).
ResponseBodies ==
    { [kind |-> "dict", answer |-> "hi",  text |-> None, response |-> None],
      [kind |-> "dict", answer |-> None,  text |-> "hi", response |-> None],
      [kind |-> "dict", answer |-> "",    text |-> None, response |-> "hi"],
      [kind |-> "dict", answer |-> None,  text |-> None, response |-> None],
      [kind |-> "number", answer |-> None, text |-> None, response |-> None],
      [kind |-> "str",  answer |-> "hi",  text |-> None, response |-> None],
      [kind |-> "list", answer |-> None,  text |-> None, response |-> None],
      [kind |-> "invalid", answer |-> None, text |-> None, response |-> None] }

Truthy(v) == v \notin {None, ""}
PyOr(a, b) == IF Truthy(a) THEN a ELSE b

get_fallback_response_bare ==
    [success |-> FALSE, answer |-> "unavailable"]
get_fallback_response ==
    [success |-> FALSE, answer |-> "unavailable", confidence |-> "0.0",
     metadata |-> "fallback"]

parse_response(body) ==
    CASE body.kind = "dict" ->
           [success |-> TRUE,
            answer |-> PyOr(PyOr(body.answer, body.text), body.response),
            confidence |-> "0.8", metadata |-> "empty"]
      [] body.kind = "str" ->
           [success |-> TRUE, answer |-> body.answer,
            confidence |-> "0.8", metadata |-> "empty"]
      [] OTHER -> get_fallback_response

NoResult == [success |-> FALSE, answer |-> None, confidence |-> None, metadata |-> None]

\* No response was received.
NoBody == [kind |-> "none", answer |-> None, text |-> None, response |-> None]

\* A caller's record: attempts counts the requests ResilientSession.post
\* has sent, result is what process_message returned. History: saw_open,
\* whether the call found the circuit open; log, the outcome of each
\* attempt; bumps, how often the call has added to failure_count; body,
\* the response body that was parsed.
IdleCaller ==
    [pc |-> "idle", attempts |-> 0, saw_open |-> FALSE, result |-> NoResult,
     log |-> <<>>, bumps |-> 0, body |-> NoBody]

\* httpx.TimeoutException and httpx.ConnectError are the retried exceptions;
\* "status" is the HTTPStatusError of raise_for_status.
RetryableAll == {"timeout", "connect", "status"}
Retryable == {"timeout", "connect"}

ThresholdReachedStrict(n) == n > max_retries
ThresholdReached(n) == n >= max_retries

SuccessKeepsCount(n) == n
CountAfterSuccess(n) == 0

\* An open circuit lets a call through to the network as a probe.
PmEnterProbes(c) ==
    /\ caller[c].pc \in {"idle", "done"}
    /\ dcalls < MaxCalls
    /\ dcalls' = dcalls + 1
    /\ caller' = [caller EXCEPT ![c] = [IdleCaller EXCEPT !.pc = "post"]]
    /\ UNCHANGED <<failure_count, circuit_open, consec, totalFails>>
    /\ UNCHANGED notDisp

\* process_message up to the circuit check: an open circuit returns the
\* fallback at once, a closed one goes on to the network call.
PmEnter(c) ==
    /\ caller[c].pc \in {"idle", "done"}
    /\ dcalls < MaxCalls
    /\ dcalls' = dcalls + 1
    /\ caller' = [caller EXCEPT ![c] =
          IF circuit_open
          THEN [IdleCaller EXCEPT !.pc = "done", !.saw_open = TRUE,
                                  !.result = get_fallback_response]
          ELSE [IdleCaller EXCEPT !.pc = "post"]]
    /\ UNCHANGED <<failure_count, circuit_open, consec, totalFails>>
    /\ UNCHANGED notDisp

\* One attempt of ResilientSession.post fails with a retried exception and
\* tenacity has attempts left.
PmRetry(c) ==
    /\ caller[c].pc = "post"
    /\ caller[c].attempts + 1 < stop_after_attempt
    /\ \E exc \in Retryable :
          caller' = [caller EXCEPT ![c].attempts = @ + 1,
                                   ![c].log = Append(@, exc)]
    /\ UNCHANGED <<failure_count, circuit_open, dcalls, consec, totalFails>>
    /\ UNCHANGED notDisp

\* The except branch of process_message.
PmFail(c, exc) ==
    /\ caller[c].pc = "post"
    /\ exc \in Retryable => caller[c].attempts + 1 = stop_after_attempt
    /\ failure_count' = failure_count + 1
    /\ circuit_open' = (circuit_open \/ ThresholdReached(failure_count + 1))
    /\ caller' = [caller EXCEPT ![c] =
          [@ EXCEPT !.pc = "done", !.attempts = @ + 1,
                    !.result = get_fallback_response,
                    !.log = Append(@, exc), !.bumps = @ + 1]]
    /\ consec' = consec + 1
    /\ totalFails' = totalFails + 1
    /\ UNCHANGED dcalls
    /\ UNCHANGED notDisp

\* session.post returned: the counters are reset, then the body is parsed.
PmSucceed(c, body) ==
    /\ caller[c].pc = "post"
    /\ failure_count' = CountAfterSuccess(failure_count)
    /\ circuit_open' = FALSE
    /\ caller' = [caller EXCEPT ![c] =
          [@ EXCEPT !.pc = "done", !.attempts = @ + 1,
                    !.result = parse_response(body),
                    !.log = Append(@, "ok"), !.body = body]]
    /\ consec' = 0
    /\ UNCHANGED <<dcalls, totalFails>>
    /\ UNCHANGED notDisp

NextDisp ==
    \/ \E c \in Callers : PmEnter(c)
    \/ \E c \in Callers : PmRetry(c)
    \/ \E c \in Callers, exc \in Retryable \cup {"status"} : PmFail(c, exc)
    \/ \E c \in Callers, body \in ResponseBodies : PmSucceed(c, body)

\* ======================================================================
\* Broadcast hub: ConnectionManager in main.py
\* ======================================================================
Observers == 1..MaxObservers

Range(s) == {s[i] : i \in 1..Len(s)}

\* list.remove(x): the first occurrence is removed.
RECURSIVE ListRemove(_, _)
ListRemove(s, x) ==
    IF s = <<>> THEN <<>>
    ELSE IF Head(s) = x THEN Tail(s)
    ELSE <<Head(s)>> \o ListRemove(Tail(s), x)

IdleBroadcast == [pc |-> "idle", idx |-> 0, attempted |-> {}, delivered |-> {},
                  failed |-> {}, atStart |-> {}]

\* ConnectionManager.connect: accept, then append.
connect(ws) ==
    /\ ws \notin everConnected
    /\ everConnected' = everConnected \cup {ws}
    /\ active_connections' = Append(active_connections, ws)
    /\ handlers' = handlers \cup {ws}
    /\ UNCHANGED <<bc, broken, nbroadcasts, stalled>>
    /\ UNCHANGED notHub

\* ConnectionManager.disconnect, called by the websocket endpoints on
\* WebSocketDisconnect.
disconnect(ws) ==
    /\ ws \in handlers
    /\ ws \in Range(active_connections)
    /\ active_connections' = ListRemove(active_connections, ws)
    /\ handlers' = handlers \ {ws}
    /\ UNCHANGED <<bc, broken, everConnected, nbroadcasts, stalled>>
    /\ UNCHANGED notHub

\* A handle's transport dies: send_text on it raises from now on.
Break(ws) ==
    /\ ws \in everConnected
    /\ ws \notin broken
    /\ broken' = broken \cup {ws}
    /\ UNCHANGED <<active_connections, bc, everConnected, nbroadcasts>>
    /\ UNCHANGED <<stalled, handlers>>
    /\ UNCHANGED notHub

\* The peer of a handle stops reading and its transport's buffer is full:
\* "await connection.send_text(message)" on it never completes. broadcast
\* awaits the send without a timeout.
Stall(ws) ==
    /\ ws \in everConnected
    /\ ws \notin stalled \cup broken
    /\ stalled' = stalled \cup {ws}
    /\ UNCHANGED <<active_connections, bc, broken, everConnected, nbroadcasts>>
    /\ UNCHANGED handlers
    /\ UNCHANGED notHub

\* The endpoint receives a frame: "await manager.send_personal_message(...)"
\* raises AttributeError, ConnectionManager has no such method. The
\* endpoint catches WebSocketDisconnect only, so it ends without calling
\* manager.disconnect.
FrameReceived(ws) ==
    /\ ws \in handlers
    /\ handlers' = handlers \ {ws}
    /\ UNCHANGED <<active_connections, bc, broken, everConnected, nbroadcasts>>
    /\ UNCHANGED stalled
    /\ UNCHANGED notHub

\* What the except branch of broadcast does with the list.
AfterFailedSend(conns, ws) == conns

BroadcastStart ==
    /\ bc.pc \in {"idle", "done"}
    /\ nbroadcasts < MaxBroadcasts
    /\ nbroadcasts' = nbroadcasts + 1
    /\ bc' = [IdleBroadcast EXCEPT !.pc = "loop", !.idx = 1,
                                   !.atStart = Range(active_connections)]
    /\ UNCHANGED <<active_connections, broken, everConnected, stalled, handlers>>
    /\ UNCHANGED notHub

\* One turn of "for connection in self.active_connections": the list
\* iterator reads the element at its index, the send is awaited; the loop
\* goes on when the await ends, by returning or by raising.
BroadcastSend ==
    /\ bc.pc = "loop"
    /\ bc.idx <= Len(active_connections)
    /\ active_connections[bc.idx] \notin stalled
    /\ LET ws == active_connections[bc.idx] IN
         IF ws \in broken
         THEN /\ bc' = [bc EXCEPT !.idx = @ + 1, !.attempted = @ \cup {ws},
                                  !.failed = @ \cup {ws}]
              /\ active_connections' = AfterFailedSend(active_connections, ws)
         ELSE /\ bc' = [bc EXCEPT !.idx = @ + 1, !.attempted = @ \cup {ws},
                                  !.delivered = @ \cup {ws}]
              /\ UNCHANGED active_connections
    /\ UNCHANGED <<broken, everConnected, nbroadcasts, stalled, handlers>>
    /\ UNCHANGED notHub

BroadcastEnd ==
    /\ bc.pc = "loop"
    /\ bc.idx > Len(active_connections)
    /\ bc' = [bc EXCEPT !.pc = "done"]
    /\ UNCHANGED <<active_connections, broken, everConnected, nbroadcasts>>
    /\ UNCHANGED <<stalled, handlers>>
    /\ UNCHANGED notHub

NextHub ==
    \/ \E ws \in Observers : connect(ws)
    \/ \E ws \in Observers : disconnect(ws)
    \/ \E ws \in Observers : Break(ws)
    \/ BroadcastStart
    \/ BroadcastSend
    \/ BroadcastEnd

\* A broadcast call's own steps.
BroadcastStep == BroadcastSend \/ BroadcastEnd

\* The hub with handles whose sends may stall; no handle leaves.
NextStall ==
    \/ \E ws \in Observers : connect(ws)
    \/ \E ws \in Observers : Break(ws)
    \/ \E ws \in Observers : Stall(ws)
    \/ BroadcastStart
    \/ BroadcastStep

\* The event loop resumes a broadcast whose awaited send has ended.
FairBroadcast == WF_vars(BroadcastStep)

\* The hub with the websocket endpoints' two ways to end.
NextWs ==
    \/ NextHub
    \/ \E ws \in Observers : FrameReceived(ws)

\* ======================================================================
\* Tables and cache: crud.py, cache.py
\* ======================================================================
NULL == 0 - 1

\* An external id is the display id the callers build, "name [chat_id]";
\* tg = 0 stands for an id with no bracketed part.
UserIds == { [name |-> "alice", tg |-> 1], [name |-> "bob", tg |-> 2] }
NoUser == [name |-> "", tg |-> 0]

TextBodies == {"hello"}
FallbackText == "fallback notice"
AnswerText == "answer"

\* Optional[bool]: {} is None, {TRUE} and {FALSE} the two values.
OptBool == {{}, {TRUE}, {FALSE}}
Val(o) == CHOOSE v \in o : TRUE

extract_display_name(uid) == IF uid = NoUser THEN "Unknown" ELSE uid.name

NoChat ==
    [id |-> 0, user_id |-> NoUser, name |-> "", ai |-> FALSE, waiting |-> FALSE,
     hidden |-> FALSE, is_awaiting_manager_confirmation |-> FALSE,
     last_client_message_at |-> NULL]

\* The column defaults of class Chat.
NewChatWaiting(id, uid) ==
    [id |-> id, user_id |-> uid, name |-> extract_display_name(uid),
     ai |-> TRUE, waiting |-> TRUE, hidden |-> FALSE,
     is_awaiting_manager_confirmation |-> FALSE,
     last_client_message_at |-> NULL]
NewChat(id, uid) ==
    [id |-> id, user_id |-> uid, name |-> extract_display_name(uid),
     ai |-> TRUE, waiting |-> FALSE, hidden |-> FALSE,
     is_awaiting_manager_confirmation |-> FALSE,
     last_client_message_at |-> NULL]

ChatIds == 1..Len(chats)

\* The UPDATE a commit emits for a loaded object: only the columns whose
\* value differs from the loaded one are written.
Flush(row, loaded, cur) ==
    [col \in DOMAIN row |-> IF cur[col] # loaded[col] THEN cur[col] ELSE row[col]]

\* get_chat_by_user_id: the rows the filter selects. scalar_one_or_none
\* returns the row, None for no row, and raises for more than one.
MatchingChats(uid) ==
    { i \in ChatIds : \/ chats[i].user_id = uid
                      \/ (uid.tg = 0 /\ chats[i].name = uid.name) }

\* The chat id in brackets at the end of a display id, 0 when there is none.
telegram_chat_id(uid) == uid.tg

\* The dictionary get_messages builds of a row.
MessageDict(m) ==
    [id |-> m.id, chat_id |-> m.chat_id, message |-> m.message,
     message_type |-> IF m.message_type = "answer" THEN "answer" ELSE "question"]

RECURSIVE SelectMessages(_, _)
SelectMessages(rows, chat_id) ==
    IF rows = <<>> THEN <<>>
    ELSE IF Head(rows).chat_id = chat_id
         THEN <<MessageDict(Head(rows))>> \o SelectMessages(Tail(rows), chat_id)
         ELSE SelectMessages(Tail(rows), chat_id)

\* Cache keys: "messages:{chat_id}" and "chats:all".
CacheKeys == {<<"messages", c>> : c \in 1..MaxChats} \cup {<<"chats", 0>>}
Absent == [present |-> FALSE, value |-> <<>>]

\* CacheService.get / set / delete: without a connection they do nothing.
CacheGet(key) == IF redis THEN cache[key] ELSE Absent
CacheSet(key, value) ==
    IF redis THEN [cache EXCEPT ![key] = [present |-> TRUE, value |-> value]]
    ELSE cache
CacheDelete(key) == IF redis THEN [cache EXCEPT ![key] = Absent] ELSE cache

\* CacheService.connect
CacheConnect ==
    /\ ~redis
    /\ redis' = TRUE
    /\ UNCHANGED <<cache, engVars, notEng>>

\* A key's TTL runs out.
CacheExpire(key) ==
    /\ redis
    /\ cache[key].present
    /\ cache' = [cache EXCEPT ![key] = Absent]
    /\ UNCHANGED <<redis, engVars, notEng>>

\* ======================================================================
\* Coroutines: the inbound handler and the endpoints of main.py
\* ======================================================================
Handlers == {"poll", "hook"}     \* telegram_polling_task, telegram_webhook
Operators == {"api1", "api2"}    \* concurrent HTTP requests
Procs == Handlers \cup Operators

NoResp == [status |-> "none", json |-> FALSE, answer |-> "", manager |-> FALSE]

\* What the automation webhook may do with a forwarded message.
N8nResponses ==
    { [status |-> "200", json |-> TRUE, answer |-> a, manager |-> m] :
         a \in {"", AnswerText}, m \in BOOLEAN }
    \cup { [status |-> "200", json |-> FALSE, answer |-> "", manager |-> FALSE],
           [status |-> "500", json |-> FALSE, answer |-> "", manager |-> FALSE],
           [status |-> "timeout", json |-> FALSE, answer |-> "", manager |-> FALSE] }

IdleProc ==
    [pc |-> "idle", op |-> "none", uid |-> NoUser, text |-> "", file |-> FALSE,
     chat_id |-> 0, chat |-> NoChat, created |-> 0, ret |-> "idle",
     ai_arg |-> {}, iamc_arg |-> {}, mtype |-> "", resp |-> NoResp,
     ev |-> <<>>, list |-> <<>>, err |-> "", madeChat |-> FALSE,
     sends |-> 0, telegram_success |-> FALSE]

Free(p) == proc[p].pc = "idle"

\* Events handed to manager.broadcast.
Event(type, chat_id, message, message_type, ai_enabled, iamc) ==
    [type |-> type, chat_id |-> chat_id, message |-> message,
     message_type |-> message_type, ai_enabled |-> ai_enabled,
     is_awaiting_manager_confirmation |-> iamc]
NewMessageEvent(chat_id, message, message_type) ==
    Event("new_message", chat_id, message, message_type, {}, {})
ChatUpdateEvent(chat_id, ai_enabled, iamc) ==
    Event("chat_update", chat_id, "", "", {ai_enabled}, {iamc})
StatsEvent == Event("stats_update", 0, "", "", {}, {})
ChatDeletedEvent(chat_id) == Event("chat_deleted", chat_id, "", "", {}, {})

\* A coroutine p starts running with the locals r.
Begin(p, r) ==
    /\ Free(p)
    /\ nops < MaxOps
    /\ nops' = nops + 1
    /\ proc' = [proc EXCEPT ![p] = r]

\* p moves on with the locals r.
Step(p, r) == proc' = [proc EXCEPT ![p] = r]

\* p's coroutine reaches its end, normally or on the exception named by
\* err; when it has returned its locals are gone.
Finish(p, err) == proc' = [proc EXCEPT ![p].pc = "ret", ![p].err = err]

Return(p) ==
    /\ proc[p].pc = "ret"
    /\ Step(p, IdleProc)
    /\ UNCHANGED <<chats, messages, sweep, now, telegramSent, nops, cacheVars, notEng>>

\* create_message up to its commit and refresh: p's session inserts the
\* row; the foreign key rejects a chat_id that is no row of chats. The
\* delete of the cache key that follows suspends the coroutine only when
\* there is a connection: without one CacheService.delete returns at once.
InsertMessage(chat_id, message, message_type) ==
    Append(messages, [id |-> Len(messages) + 1, chat_id |-> chat_id,
                      message |-> message, message_type |-> message_type])

CreateMessage(p, chat_id, message, message_type, ret) ==
    /\ chat_id \in ChatIds
    /\ message_type \in {"question", "answer"}
    /\ messages' = InsertMessage(chat_id, message, message_type)
    /\ proc' = [proc EXCEPT ![p].pc = IF redis THEN "cm_delete" ELSE ret,
                            ![p].ret = ret,
                            ![p].created = Len(messages) + 1,
                            ![p].chat_id = chat_id]

\* create_message after its commit: the cache key of the chat's message
\* list is deleted, and the function returns to its caller.
CreateMessageDelete(p) ==
    /\ proc[p].pc = "cm_delete"
    /\ redis
    /\ cache' = CacheDelete(<<"messages", proc[p].chat_id>>)
    /\ Step(p, [proc[p] EXCEPT !.pc = proc[p].ret])
    /\ UNCHANGED <<chats, messages, sweep, now, telegramSent, nops, redis, notEng>>

\* ----------------------------------------------------------------------
\* process_telegram_message (main.py)
\* ----------------------------------------------------------------------
N8N_WEBHOOK_URL == TRUE     \* the webhook URL is configured

\* The placeholder body of a photo message.
FileText(text) ==
    CASE text = "hello" -> "Photo received: hello"
      [] text = "bye" -> "Photo received: bye"
      [] OTHER -> "Photo received"

message_text(r) == IF r.file THEN FileText(r.text) ELSE r.text

\* The call, up to the validation of message_data: a message with neither
\* text nor file, or with no user_id, is skipped. telegram_polling_task
\* and telegram_webhook pass text only; a direct call may carry a file.
HStart(p, uid, text, file) ==
    /\ text # "" \/ file
    /\ uid # NoUser
    /\ Begin(p, [IdleProc EXCEPT !.pc = "lookup", !.op = "inbound", !.uid = uid,
                                 !.text = text, !.file = file])
    /\ UNCHANGED <<chats, messages, sweep, now, telegramSent, cacheVars, notEng>>

\* chat = await get_chat_by_user_id(db, user_id)
HLookup(p) ==
    /\ proc[p].pc = "lookup"
    /\ LET m == MatchingChats(proc[p].uid) IN
         IF Cardinality(m) > 1 THEN Finish(p, "MultipleResultsFound")
         ELSE IF m = {} THEN Step(p, [proc[p] EXCEPT !.pc = "create"])
         ELSE Step(p, [proc[p] EXCEPT
                  !.chat = chats[CHOOSE i \in m : TRUE],
                  !.pc = IF proc[p].file THEN "file" ELSE "message"])
    /\ UNCHANGED <<chats, messages, sweep, now, telegramSent, nops, cacheVars, notEng>>

\* chat = await create_chat(db, user_id), with its delete of "chats:all"
HCreate(p) ==
    /\ proc[p].pc = "create"
    /\ Len(chats) < MaxChats
    /\ LET row == NewChat(Len(chats) + 1, proc[p].uid) IN
         /\ chats' = Append(chats, row)
         /\ Step(p, [proc[p] EXCEPT !.chat = row, !.madeChat = TRUE,
                        !.pc = IF proc[p].file THEN "file" ELSE "message"])
    /\ cache' = CacheDelete(<<"chats", 0>>)
    /\ UNCHANGED <<messages, sweep, now, telegramSent, nops, redis, notEng>>

\* if has_file: chat.ai = False; chat.waiting = True; commit; refresh
HFile(p) ==
    /\ proc[p].pc = "file"
    /\ LET c == proc[p].chat
           row == Flush(chats[c.id], c, [c EXCEPT !.ai = FALSE, !.waiting = TRUE])
       IN /\ chats' = [chats EXCEPT ![c.id] = row]
          /\ Step(p, [proc[p] EXCEPT !.chat = row, !.pc = "message"])
    /\ UNCHANGED <<messages, sweep, now, telegramSent, nops, cacheVars, notEng>>

\* created = await create_message(db, chat.id, message_text, "question")
HMessage(p) ==
    /\ proc[p].pc = "message"
    /\ CreateMessage(p, proc[p].chat.id, message_text(proc[p]), "question", "stamp")
    /\ UNCHANGED <<chats, sweep, now, telegramSent, nops, cacheVars, notEng>>

\* chat.last_client_message_at = func.now(); a hidden chat is unhidden;
\* commit; refresh
HStamp(p) ==
    /\ proc[p].pc = "stamp"
    /\ LET c == proc[p].chat
           cur == [c EXCEPT !.hidden = IF c.hidden THEN FALSE ELSE c.hidden]
           row == [Flush(chats[c.id], c, cur) EXCEPT !.last_client_message_at = now]
       IN /\ chats' = [chats EXCEPT ![c.id] = row]
          /\ Step(p, [proc[p] EXCEPT !.chat = row, !.pc = "bc"])
    /\ UNCHANGED <<messages, sweep, now, telegramSent, nops, cacheVars, notEng>>

\* Every message is forwarded, whatever the flags of the chat.
ShouldForwardAlways(c) == N8N_WEBHOOK_URL

\* Whether the message is forwarded to the automation webhook.
ShouldForward(c) == N8N_WEBHOOK_URL /\ c.ai /\ ~c.waiting

\* The events the handler broadcasts for an inbound message: "new_message",
\* "chat_update" and the stats. Each takes its values from the handler's
\* own objects.
InboundEvents(r) ==
    << NewMessageEvent(r.chat.id, message_text(r), "question"),
       ChatUpdateEvent(r.chat.id, r.chat.ai, r.chat.is_awaiting_manager_confirmation),
       StatsEvent >>

\* The three broadcasts, then the decision to forward.
HBroadcast(p) ==
    /\ proc[p].pc = "bc"
    /\ IF ShouldForward(proc[p].chat)
       THEN Step(p, [proc[p] EXCEPT !.ev = @ \o InboundEvents(proc[p]),
                                    !.pc = "forward"])
       ELSE Step(p, [proc[p] EXCEPT !.ev = @ \o InboundEvents(proc[p]),
                                    !.pc = "ret"])
    /\ UNCHANGED <<chats, messages, sweep, now, telegramSent, nops, cacheVars, notEng>>

\* A failed POST ends the handler with an exception.
HForwardRaises(p, resp) ==
    /\ proc[p].pc = "forward"
    /\ IF resp.status = "200" /\ resp.json
       THEN Step(p, [proc[p] EXCEPT
               !.resp = resp,
               !.pc = IF resp.answer # "" THEN "r_lookup" ELSE "ret"])
       ELSE Step(p, [proc[p] EXCEPT !.resp = resp, !.pc = "ret",
                                    !.err = "n8n error"])
    /\ UNCHANGED <<chats, messages, sweep, now, telegramSent, nops, cacheVars, notEng>>

\* forward_to_n8n: the POST and what follows from its outcome
HForward(p, resp) ==
    /\ proc[p].pc = "forward"
    /\ Step(p, [proc[p] EXCEPT
          !.resp = resp,
          !.pc = IF resp.status = "200"
                 THEN (IF resp.json /\ resp.answer # "" THEN "r_lookup" ELSE "ret")
                 ELSE "f_lookup"])
    /\ UNCHANGED <<chats, messages, sweep, now, telegramSent, nops, cacheVars, notEng>>

\* handle_n8n_response: chat = await get_chat_by_user_id(db, user_id)
RLookup(p) ==
    /\ proc[p].pc = "r_lookup"
    /\ LET m == MatchingChats(proc[p].uid) IN
         IF Cardinality(m) > 1 THEN Finish(p, "MultipleResultsFound")
         ELSE IF m = {} THEN Finish(p, "")
         ELSE Step(p, [proc[p] EXCEPT !.chat = chats[CHOOSE i \in m : TRUE],
                                      !.pc = "r_message"])
    /\ UNCHANGED <<chats, messages, sweep, now, telegramSent, nops, cacheVars, notEng>>

\* handle_n8n_response: await create_message(db, chat.id, answer, "answer")
RMessage(p) ==
    /\ proc[p].pc = "r_message"
    /\ CreateMessage(p, proc[p].chat.id, proc[p].resp.answer, "answer", "r_send")
    /\ UNCHANGED <<chats, sweep, now, telegramSent, nops, cacheVars, notEng>>

\* handle_n8n_response: send_message_to_telegram(int(telegram_chat_id), answer)
RSend(p) ==
    /\ proc[p].pc = "r_send"
    /\ telegramSent' = telegramSent \cup
          {[to |-> telegram_chat_id(proc[p].uid), text |-> proc[p].resp.answer]}
    /\ Step(p, [proc[p] EXCEPT !.pc = "r_bc"])
    /\ UNCHANGED <<chats, messages, sweep, now, nops, cacheVars, notEng>>

\* handle_n8n_response: broadcast of "new_message"
RBroadcast(p) ==
    /\ proc[p].pc = "r_bc"
    /\ Step(p, [proc[p] EXCEPT
          !.ev = Append(@, NewMessageEvent(proc[p].chat.id, proc[p].resp.answer,
                                           "answer")),
          !.pc = IF proc[p].resp.manager THEN "r_handover" ELSE "ret"])
    /\ UNCHANGED <<chats, messages, sweep, now, telegramSent, nops, cacheVars, notEng>>

\* handle_n8n_response: chat.ai = False; chat.waiting = True; commit; refresh
RHandover(p) ==
    /\ proc[p].pc = "r_handover"
    /\ LET c == proc[p].chat
           row == Flush(chats[c.id], c, [c EXCEPT !.ai = FALSE, !.waiting = TRUE])
       IN /\ chats' = [chats EXCEPT ![c.id] = row]
          /\ Step(p, [proc[p] EXCEPT !.chat = row, !.pc = "r_bc_chat"])
    /\ UNCHANGED <<messages, sweep, now, telegramSent, nops, cacheVars, notEng>>

\* handle_n8n_response: broadcast of "chat_update", then of the stats
RBroadcastChat(p) ==
    /\ proc[p].pc = "r_bc_chat"
    /\ Step(p, [proc[p] EXCEPT
          !.ev = @ \o <<ChatUpdateEvent(proc[p].chat.id, FALSE, TRUE), StatsEvent>>,
          !.pc = "ret"])
    /\ UNCHANGED <<chats, messages, sweep, now, telegramSent, nops, cacheVars, notEng>>

\* send_fallback_message: the display id is cut at " [" before the lookup
FallbackUserId(uid) == IF uid.tg # 0 THEN [name |-> uid.name, tg |-> 0] ELSE uid

FLookup(p) ==
    /\ proc[p].pc = "f_lookup"
    /\ LET m == MatchingChats(FallbackUserId(proc[p].uid)) IN
         IF Cardinality(m) > 1 THEN Finish(p, "MultipleResultsFound")
         ELSE IF m = {} THEN Finish(p, "")
         ELSE Step(p, [proc[p] EXCEPT !.chat = chats[CHOOSE i \in m : TRUE],
                                      !.pc = "f_send"])
    /\ UNCHANGED <<chats, messages, sweep, now, telegramSent, nops, cacheVars, notEng>>

\* send_fallback_message: send_message_to_telegram(chat.id, fallback_message)
FSend(p) ==
    /\ proc[p].pc = "f_send"
    /\ telegramSent' = telegramSent \cup
          {[to |-> proc[p].chat.id, text |-> FallbackText]}
    /\ Step(p, [proc[p] EXCEPT !.pc = "f_message"])
    /\ UNCHANGED <<chats, messages, sweep, now, nops, cacheVars, notEng>>

\* send_fallback_message: create_message(db, chat.id, fallback_message, "answer")
FMessage(p) ==
    /\ proc[p].pc = "f_message"
    /\ CreateMessage(p, proc[p].chat.id, FallbackText, "answer", "f_bc")
    /\ UNCHANGED <<chats, sweep, now, telegramSent, nops, cacheVars, notEng>>

\* send_fallback_message: broadcast of "new_message"
FBroadcast(p) ==
    /\ proc[p].pc = "f_bc"
    /\ Step(p, [proc[p] EXCEPT
          !.ev = Append(@, NewMessageEvent(proc[p].chat.id, FallbackText, "answer")),
          !.pc = "ret"])
    /\ UNCHANGED <<chats, messages, sweep, now, telegramSent, nops, cacheVars, notEng>>

\* ----------------------------------------------------------------------
\* The operator's endpoints (main.py)
\* ----------------------------------------------------------------------
\* POST /api/chats: create_chat_endpoint
create_chat_endpoint(p, uid) ==
    /\ Len(chats) < MaxChats
    /\ LET row == NewChat(Len(chats) + 1, uid) IN
         /\ chats' = Append(chats, row)
         /\ Begin(p, [IdleProc EXCEPT !.pc = "ret", !.op = "create_chat",
                         !.uid = uid, !.chat = row, !.madeChat = TRUE])
    /\ cache' = CacheDelete(<<"chats", 0>>)
    /\ UNCHANGED <<messages, sweep, now, telegramSent, redis, notEng>>

\* PUT /api/chats/{chat_id}: update_chat
UStart(p, chat_id, iamc_arg, ai_arg) ==
    /\ Begin(p, [IdleProc EXCEPT !.pc = "u_get", !.op = "update_chat",
                    !.chat_id = chat_id, !.iamc_arg = iamc_arg, !.ai_arg = ai_arg])
    /\ UNCHANGED <<chats, messages, sweep, now, telegramSent, cacheVars, notEng>>

\* chat = await get_chat(db, chat_id); the 404 raised for no row is caught
\* by the handler's own except clause and answered as a 500.
GetChat(p, next) ==
    IF proc[p].chat_id \in ChatIds
    THEN Step(p, [proc[p] EXCEPT !.chat = chats[proc[p].chat_id], !.pc = next])
    ELSE Finish(p, "500")

UGet(p) ==
    /\ proc[p].pc = "u_get"
    /\ GetChat(p, "u_commit")
    /\ UNCHANGED <<chats, messages, sweep, now, telegramSent, nops, cacheVars, notEng>>

\* The assignments of update_chat to the loaded object.
UpdateChatFieldsAiOnly(c, iamc_arg, ai_arg) ==
    [c EXCEPT !.ai = IF ai_arg # {} THEN Val(ai_arg) ELSE @]
UpdateChatFields(c, iamc_arg, ai_arg) ==
    [c EXCEPT
       !.is_awaiting_manager_confirmation = IF iamc_arg # {} THEN Val(iamc_arg) ELSE @,
       !.ai = IF ai_arg # {} THEN Val(ai_arg) ELSE @,
       !.waiting = IF ai_arg # {} THEN ~Val(ai_arg) ELSE @]

UCommit(p) ==
    /\ proc[p].pc = "u_commit"
    /\ LET c == proc[p].chat
           row == Flush(chats[c.id], c,
                        UpdateChatFields(c, proc[p].iamc_arg, proc[p].ai_arg))
       IN /\ chats' = [chats EXCEPT ![c.id] = row]
          /\ Step(p, [proc[p] EXCEPT !.chat = row, !.pc = "u_bc"])
    /\ UNCHANGED <<messages, sweep, now, telegramSent, nops, cacheVars, notEng>>

\* broadcast of "chat_update", then broadcast_stats_update
UBroadcast(p) ==
    /\ proc[p].pc = "u_bc"
    /\ Step(p, [proc[p] EXCEPT
          !.ev = @ \o <<ChatUpdateEvent(proc[p].chat.id, proc[p].chat.ai,
                           proc[p].chat.is_awaiting_manager_confirmation),
                        StatsEvent>>,
          !.pc = "ret"])
    /\ UNCHANGED <<chats, messages, sweep, now, telegramSent, nops, cacheVars, notEng>>

\* DELETE /api/chats/{chat_id}: hide_chat_endpoint
DStart(p, chat_id) ==
    /\ Begin(p, [IdleProc EXCEPT !.pc = "d_get", !.op = "hide_chat",
                                 !.chat_id = chat_id])
    /\ UNCHANGED <<chats, messages, sweep, now, telegramSent, cacheVars, notEng>>

DGet(p) ==
    /\ proc[p].pc = "d_get"
    /\ GetChat(p, "d_commit")
    /\ UNCHANGED <<chats, messages, sweep, now, telegramSent, nops, cacheVars, notEng>>

\* The commit of the hide also forgets when the client wrote last.
DCommitClearsStamp(p) ==
    /\ proc[p].pc = "d_commit"
    /\ LET c == proc[p].chat
           row == Flush(chats[c.id], c,
                        [c EXCEPT !.hidden = TRUE, !.last_client_message_at = NULL])
       IN /\ chats' = [chats EXCEPT ![c.id] = row]
          /\ Step(p, [proc[p] EXCEPT !.chat = row, !.pc = "d_bc"])
    /\ UNCHANGED <<messages, sweep, now, telegramSent, nops, cacheVars, notEng>>

DCommit(p) ==
    /\ proc[p].pc = "d_commit"
    /\ LET c == proc[p].chat
           row == Flush(chats[c.id], c, [c EXCEPT !.hidden = TRUE])
       IN /\ chats' = [chats EXCEPT ![c.id] = row]
          /\ Step(p, [proc[p] EXCEPT !.chat = row, !.pc = "d_bc"])
    /\ UNCHANGED <<messages, sweep, now, telegramSent, nops, cacheVars, notEng>>

DBroadcast(p) ==
    /\ proc[p].pc = "d_bc"
    /\ Step(p, [proc[p] EXCEPT !.ev = Append(@, ChatDeletedEvent(proc[p].chat_id)),
                               !.pc = "ret"])
    /\ UNCHANGED <<chats, messages, sweep, now, telegramSent, nops, cacheVars, notEng>>

\* POST /api/chats/{chat_id}/messages: send_message
SStart(p, chat_id, text, mtype) ==
    /\ Begin(p, [IdleProc EXCEPT !.pc = "s_message", !.op = "send_message",
                    !.chat_id = chat_id, !.text = text, !.mtype = mtype])
    /\ UNCHANGED <<chats, messages, sweep, now, telegramSent, cacheVars, notEng>>

\* new_message = await create_message(...); a chat_id that is no row, or a
\* message_type outside the two allowed, raises and is answered as a 500.
SMessage(p) ==
    /\ proc[p].pc = "s_message"
    /\ IF proc[p].chat_id \in ChatIds /\ proc[p].mtype \in {"question", "answer"}
       THEN CreateMessage(p, proc[p].chat_id, proc[p].text, proc[p].mtype, "s_bc")
       ELSE Finish(p, "500") /\ UNCHANGED messages
    /\ UNCHANGED <<chats, sweep, now, telegramSent, nops, cacheVars, notEng>>

\* broadcast of "new_message"; chat = await get_chat(db, chat_id): an answer
\* goes on to Telegram when the display id ends in a bracketed chat id.
SBroadcast(p) ==
    /\ proc[p].pc = "s_bc"
    /\ LET c == chats[proc[p].chat_id] IN
         Step(p, [proc[p] EXCEPT
            !.ev = Append(@, NewMessageEvent(proc[p].chat_id, proc[p].text,
                                             proc[p].mtype)),
            !.chat = c,
            !.pc = IF proc[p].mtype = "answer" /\ telegram_chat_id(c.user_id) # 0
                   THEN "s_send" ELSE "ret"])
    /\ UNCHANGED <<chats, messages, sweep, now, telegramSent, nops, cacheVars, notEng>>

\* A delivery that fails ends the request with an error.
SSendRaises(p, ok) ==
    /\ proc[p].pc = "s_send"
    /\ telegramSent' =
          IF ok THEN telegramSent \cup
                       {[to |-> telegram_chat_id(proc[p].chat.user_id),
                         text |-> proc[p].text]}
          ELSE telegramSent
    /\ Step(p, [proc[p] EXCEPT !.sends = @ + 1, !.telegram_success = ok,
                               !.pc = "ret", !.err = IF ok THEN "" ELSE "500"])
    /\ UNCHANGED <<chats, messages, sweep, now, nops, cacheVars, notEng>>

\* telegram_success = await send_message_to_telegram(telegram_chat_id,
\* message.message): one POST to the platform; another status than 200, or
\* an exception, is logged and gives False, and send_message logs either
\* outcome and goes on to its return.
SSend(p, ok) ==
    /\ proc[p].pc = "s_send"
    /\ telegramSent' =
          IF ok THEN telegramSent \cup
                       {[to |-> telegram_chat_id(proc[p].chat.user_id),
                         text |-> proc[p].text]}
          ELSE telegramSent
    /\ Step(p, [proc[p] EXCEPT !.sends = @ + 1, !.telegram_success = ok,
                               !.pc = "ret"])
    /\ UNCHANGED <<chats, messages, sweep, now, nops, cacheVars, notEng>>

\* POST /api/chats/{chat_id}/upload: upload_file
UploadText == "File: upload"

UpStart(p, chat_id) ==
    /\ Begin(p, [IdleProc EXCEPT !.pc = "up_get", !.op = "upload_file",
                                 !.chat_id = chat_id, !.text = UploadText])
    /\ UNCHANGED <<chats, messages, sweep, now, telegramSent, cacheVars, notEng>>

UpGet(p) ==
    /\ proc[p].pc = "up_get"
    /\ GetChat(p, "up_commit")
    /\ UNCHANGED <<chats, messages, sweep, now, telegramSent, nops, cacheVars, notEng>>

\* chat.ai = False; chat.waiting = True; commit; refresh
UpCommit(p) ==
    /\ proc[p].pc = "up_commit"
    /\ LET c == proc[p].chat
           row == Flush(chats[c.id], c, [c EXCEPT !.ai = FALSE, !.waiting = TRUE])
       IN /\ chats' = [chats EXCEPT ![c.id] = row]
          /\ Step(p, [proc[p] EXCEPT !.chat = row, !.pc = "up_message"])
    /\ UNCHANGED <<messages, sweep, now, telegramSent, nops, cacheVars, notEng>>

UpMessage(p) ==
    /\ proc[p].pc = "up_message"
    /\ CreateMessage(p, proc[p].chat_id, UploadText, "answer", "up_send")
    /\ UNCHANGED <<chats, sweep, now, telegramSent, nops, cacheVars, notEng>>

\* send_file_to_telegram, when the display id ends in a bracketed chat id
UpSend(p) ==
    /\ proc[p].pc = "up_send"
    /\ telegramSent' =
          IF telegram_chat_id(proc[p].chat.user_id) # 0
          THEN telegramSent \cup
                 {[to |-> telegram_chat_id(proc[p].chat.user_id), text |-> UploadText]}
          ELSE telegramSent
    /\ Step(p, [proc[p] EXCEPT !.pc = "up_bc"])
    /\ UNCHANGED <<chats, messages, sweep, now, nops, cacheVars, notEng>>

\* broadcast of "chat_update", then of "new_message"
UpBroadcast(p) ==
    /\ proc[p].pc = "up_bc"
    /\ Step(p, [proc[p] EXCEPT
          !.ev = @ \o <<ChatUpdateEvent(proc[p].chat.id, FALSE, TRUE),
                        NewMessageEvent(proc[p].chat_id, UploadText, "answer")>>,
          !.pc = "ret"])
    /\ UNCHANGED <<chats, messages, sweep, now, telegramSent, nops, cacheVars, notEng>>

\* GET /api/chats/{chat_id}/messages: read_messages -> get_messages
GStart(p, chat_id) ==
    /\ Begin(p, [IdleProc EXCEPT !.pc = "g_cache", !.op = "read_messages",
                                 !.chat_id = chat_id])
    /\ UNCHANGED <<chats, messages, sweep, now, telegramSent, cacheVars, notEng>>

\* cached_messages = await cache_service.get(cache_key); a non-empty list
\* is returned as it is
GCacheGet(p) ==
    /\ proc[p].pc = "g_cache"
    /\ LET v == CacheGet(<<"messages", proc[p].chat_id>>) IN
         IF v.present /\ v.value # <<>>
         THEN Step(p, [proc[p] EXCEPT !.list = v.value, !.pc = "ret"])
         ELSE Step(p, [proc[p] EXCEPT !.pc = "g_query"])
    /\ UNCHANGED <<chats, messages, sweep, now, telegramSent, nops, cacheVars, notEng>>

\* the SELECT of the chat's messages
GQuery(p) ==
    /\ proc[p].pc = "g_query"
    /\ Step(p, [proc[p] EXCEPT !.list = SelectMessages(messages, proc[p].chat_id),
                               !.pc = "g_set"])
    /\ UNCHANGED <<chats, messages, sweep, now, telegramSent, nops, cacheVars, notEng>>

\* await cache_service.set(cache_key, message_list, ttl=300)
GSet(p) ==
    /\ proc[p].pc = "g_set"
    /\ cache' = CacheSet(<<"messages", proc[p].chat_id>>, proc[p].list)
    /\ Step(p, [proc[p] EXCEPT !.pc = "ret"])
    /\ UNCHANGED <<chats, messages, sweep, now, telegramSent, nops, redis, notEng>>

\* ----------------------------------------------------------------------
\* get_chats (crud.py)
\* ----------------------------------------------------------------------
\* The dictionary get_chats builds of a row.
ChatDict(c) ==
    [id |-> c.id, user_id |-> c.user_id,
     is_awaiting_manager_confirmation |-> c.is_awaiting_manager_confirmation]

\* select(Chat): every row, as dictionaries.
SelectChats == [i \in ChatIds |-> ChatDict(chats[i])]

LStart(p) ==
    /\ Begin(p, [IdleProc EXCEPT !.pc = "l_cache", !.op = "get_chats"])
    /\ UNCHANGED <<chats, messages, sweep, now, telegramSent, cacheVars, notEng>>

\* cached_chats = await cache_service.get("chats:all"); a non-empty list is
\* returned as it is
LCacheGet(p) ==
    /\ proc[p].pc = "l_cache"
    /\ LET v == CacheGet(<<"chats", 0>>) IN
         IF v.present /\ v.value # <<>>
         THEN Step(p, [proc[p] EXCEPT !.list = v.value, !.pc = "ret"])
         ELSE Step(p, [proc[p] EXCEPT !.pc = "l_query"])
    /\ UNCHANGED <<chats, messages, sweep, now, telegramSent, nops, cacheVars, notEng>>

\* the SELECT of the chats
LQuery(p) ==
    /\ proc[p].pc = "l_query"
    /\ Step(p, [proc[p] EXCEPT !.list = SelectChats, !.pc = "l_set"])
    /\ UNCHANGED <<chats, messages, sweep, now, telegramSent, nops, cacheVars, notEng>>

\* await cache_service.set("chats:all", chat_list, ttl=300)
LSet(p) ==
    /\ proc[p].pc = "l_set"
    /\ cache' = CacheSet(<<"chats", 0>>, proc[p].list)
    /\ Step(p, [proc[p] EXCEPT !.pc = "ret"])
    /\ UNCHANGED <<chats, messages, sweep, now, telegramSent, nops, redis, notEng>>

\* ----------------------------------------------------------------------
\* The SELECT of get_messages: order_by(Message.created_at)
\* ----------------------------------------------------------------------
\* A row gets its created_at from the server default now(), the start of
\* its transaction: two rows may carry the same value, and a later row an
\* earlier one.
InsertStamped(chat_id, t) ==
    /\ Len(stamped) < MaxRows
    /\ stamped' = Append(stamped, [id |-> Len(stamped) + 1, chat_id |-> chat_id,
                                   created_at |-> t])
    /\ UNCHANGED <<message_list, engVars, cacheVars, dispVars, hubVars, pollVars>>

\* The rows of the chat.
RowsOf(chat_id) == {stamped[k] : k \in {j \in 1..Len(stamped) : stamped[j].chat_id = chat_id}}

\* ORDER BY created_at: every arrangement of the rows in which created_at
\* does not decrease; the database is free in the order of rows with equal
\* created_at.
OrderedByCreatedAt(rows) ==
    { f \in [1..Cardinality(rows) -> rows] :
         /\ \A j, k \in 1..Cardinality(rows) : j # k => f[j] # f[k]
         /\ \A k \in 1..(Cardinality(rows) - 1) :
               f[k].created_at <= f[k + 1].created_at }

\* select(Message).filter(Message.chat_id == chat_id)
\*    .order_by(Message.created_at)
SelectOrdered(chat_id) ==
    /\ \E f \in OrderedByCreatedAt(RowsOf(chat_id)) : message_list' = f
    /\ UNCHANGED <<stamped, engVars, cacheVars, dispVars, hubVars, pollVars>>

\* ----------------------------------------------------------------------
\* auto_ai_reactivation_task (main.py)
\* ----------------------------------------------------------------------
\* The sweep's locals: sel and snap are the rows its SELECT returned as
\* its session holds them, todo the rows the loop has not reached, ev what
\* it has broadcast, ten_minutes_ago the cutoff of the SELECT. quiet,
\* nopsAtSelect, preMessages and preSent are history: whether a coroutine
\* was running at the SELECT, and the counters and tables of that moment.
IdleSweep ==
    [pc |-> "idle", sel |-> {}, todo |-> {}, cur |-> 0, snap |-> <<>>,
     ev |-> <<>>, ten_minutes_ago |-> 0, quiet |-> TRUE, nopsAtSelect |-> 0,
     preMessages |-> <<>>, preSent |-> {}]

\* The filter of the sweep's SELECT. A sweep that selects no chat changes
\* nothing and is not a step.
EligibleNoTimestampCheck(c) == c.waiting /\ ~c.ai
\* The filter without "last_client_message_at IS NOT NULL", NULL counting
\* as older than any time.
EligibleNullIsOld(c) ==
    /\ c.waiting
    /\ ~c.ai
    /\ c.last_client_message_at = NULL
          \/ c.last_client_message_at < now - SilenceThreshold
Eligible(c) ==
    /\ c.waiting
    /\ ~c.ai
    /\ c.last_client_message_at # NULL
    /\ c.last_client_message_at < now - SilenceThreshold

\* What the sweep assigns to a selected chat.
Reactivate(c) == [c EXCEPT !.ai = TRUE, !.waiting = FALSE]

SweepSelect ==
    /\ sweep.pc = "idle"
    /\ LET sel == {i \in ChatIds : Eligible(chats[i])} IN
         /\ sel # {}
         /\ sweep' = [pc |-> "loop", sel |-> sel, todo |-> sel, cur |-> 0,
                      snap |-> chats, ev |-> <<>>,
                      ten_minutes_ago |-> now - SilenceThreshold,
                      quiet |-> \A p \in Procs : Free(p), nopsAtSelect |-> nops,
                      preMessages |-> messages, preSent |-> telegramSent]
    /\ UNCHANGED <<chats, messages, proc, now, telegramSent, nops, cacheVars, notEng>>

\* One turn of the loop up to its commit and refresh.
SweepCommit ==
    /\ sweep.pc = "loop"
    /\ \E c \in sweep.todo :
         /\ chats' = [chats EXCEPT
               ![c] = Flush(@, sweep.snap[c], Reactivate(sweep.snap[c]))]
         /\ sweep' = [sweep EXCEPT !.pc = "bc", !.cur = c, !.todo = @ \ {c}]
    /\ UNCHANGED <<messages, proc, now, telegramSent, nops, cacheVars, notEng>>

\* The turn's broadcast of "chat_update"
SweepBroadcast ==
    /\ sweep.pc = "bc"
    /\ sweep' = [sweep EXCEPT
          !.ev = Append(@, ChatUpdateEvent(sweep.cur, TRUE, FALSE)),
          !.pc = IF sweep.todo = {} THEN "stats" ELSE "loop"]
    /\ UNCHANGED <<chats, messages, proc, now, telegramSent, nops, cacheVars, notEng>>

\* broadcast_stats_update after the loop, then asyncio.sleep(120)
SweepStats ==
    /\ sweep.pc = "stats"
    /\ sweep' = IdleSweep
    /\ UNCHANGED <<chats, messages, proc, now, telegramSent, nops, cacheVars, notEng>>

\* A statement or a broadcast of the sweep raises: the except clause of the
\* while loop logs it, the session is closed and the task sleeps until its
\* next cycle. What the sweep has committed stays.
SweepFail ==
    /\ sweep.pc \in {"loop", "bc", "stats"}
    /\ sweep' = IdleSweep
    /\ UNCHANGED <<chats, messages, proc, now, telegramSent, nops, cacheVars, notEng>>

\* Time passes.
Tick ==
    /\ now < MaxTime
    /\ now' = now + 1
    /\ UNCHANGED <<chats, messages, proc, sweep, telegramSent, nops, cacheVars, notEng>>

\* ======================================================================
\* Ingestion loop: telegram_polling_task (main.py) and getUpdates
\* ======================================================================
\* An update of the upstream platform: it carries a message or not; a
\* message has a text, or a photo and no text (the platform puts a photo's
\* words under "caption"), or neither (a sticker).
Update(id, message, uid, text, photo) ==
    [update_id |-> id, message |-> message, uid |-> uid, text |-> text,
     photo |-> photo]

UpdateKinds ==
    { [message |-> TRUE, uid |-> uid, text |-> text, photo |-> FALSE] :
         uid \in UserIds, text \in TextBodies \cup {""} }
    \cup { [message |-> TRUE, uid |-> uid, text |-> "", photo |-> TRUE] :
              uid \in UserIds }
    \cup { [message |-> FALSE, uid |-> NoUser, text |-> "", photo |-> FALSE] }

\* The loop's locals: offset, the batch "updates" and the index i of the
\* update the for loop is at. A process starts with offset = 0.
IdlePoller == [pc |-> "fetch", offset |-> 0, updates |-> <<>>, i |-> 0]

\* The platform receives an update; ids are consecutive.
Arrive(k) ==
    /\ arrived < MaxUpdates
    /\ arrived' = arrived + 1
    /\ upstream' = Append(upstream, Update(arrived + 1, k.message, k.uid, k.text,
                                         k.photo))
    /\ UNCHANGED <<poller, handled, crashes>>
    /\ UNCHANGED <<engVars, cacheVars, dispVars, hubVars, ordVars>>

\* getUpdates(offset): the updates with update_id >= offset in the order
\* of their ids; the platform forgets the older ones.
GetUpdates(offset) ==
    SelectSeq(upstream, LAMBDA u : u.update_id >= offset)

\* offset = update_id + 1
NextOffsetSame(update_id) == update_id
NextOffset(update_id) == update_id + 1

\* The GET answers 200: with a non-empty result the for loop starts, with
\* an empty one the loop sleeps 5 s.
PollFetch ==
    /\ poller.pc = "fetch"
    /\ LET updates == GetUpdates(poller.offset) IN
         /\ upstream' = updates
         /\ poller' = IF updates = <<>>
                       THEN [poller EXCEPT !.pc = "sleep", !.updates = <<>>, !.i = 0]
                       ELSE [poller EXCEPT !.pc = "handle", !.updates = updates,
                                           !.i = 1]
    /\ UNCHANGED <<arrived, handled, crashes>>
    /\ UNCHANGED <<engVars, cacheVars, dispVars, hubVars, ordVars>>

\* The GET raises or answers another status: the loop sleeps 30 s.
PollFetchFailReset ==
    /\ poller.pc = "fetch"
    /\ poller' = [IdlePoller EXCEPT !.pc = "backoff"]
    /\ UNCHANGED <<upstream, arrived, handled, crashes>>
    /\ UNCHANGED <<engVars, cacheVars, dispVars, hubVars, ordVars>>
PollFetchFail ==
    /\ poller.pc = "fetch"
    /\ poller' = [poller EXCEPT !.pc = "backoff", !.updates = <<>>, !.i = 0]
    /\ UNCHANGED <<upstream, arrived, handled, crashes>>
    /\ UNCHANGED <<engVars, cacheVars, dispVars, hubVars, ordVars>>

\* asyncio.sleep ends and the loop fetches again.
PollSleep ==
    /\ poller.pc \in {"sleep", "backoff"}
    /\ poller' = [poller EXCEPT !.pc = "fetch"]
    /\ UNCHANGED <<upstream, arrived, handled, crashes>>
    /\ UNCHANGED <<engVars, cacheVars, dispVars, hubVars, ordVars>>

\* The loop after the update at i: the offset moves past it, and the for
\* loop goes to the next update or ends.
AfterUpdate(r) ==
    [r EXCEPT !.offset = NextOffset(r.updates[r.i].update_id),
              !.i = IF r.i < Len(r.updates) THEN r.i + 1 ELSE 0,
              !.updates = IF r.i < Len(r.updates) THEN @ ELSE <<>>,
              !.pc = IF r.i < Len(r.updates) THEN "handle" ELSE "sleep"]

\* message_data as the loop builds it from an update's message: message_id,
\* user_id, chat_id, text and date. The keys the handler reads for a file
\* (photo, document, video, audio) are not copied, so has_file is None.
MessageData(u) == [user_id |-> u.uid, text |-> u.text, has_file |-> FALSE]

\* await process_telegram_message(message_data) for an update with a text:
\* the call passes the validation and the handler starts.
PollCall ==
    /\ poller.pc = "handle"
    /\ LET u == poller.updates[poller.i]
           message_data == MessageData(u)
       IN /\ u.message
          /\ HStart("poll", message_data.user_id, message_data.text,
                    message_data.has_file)

\* An update without a message, or a message without text for which
\* process_telegram_message returns at its validation: nothing is stored.
PollSkip ==
    /\ poller.pc = "handle"
    /\ Free("poll")
    /\ LET u == poller.updates[poller.i]
           message_data == MessageData(u)
       IN ~u.message \/ (message_data.text = "" /\ ~message_data.has_file)
    /\ poller' = AfterUpdate(poller)
    /\ handled' = Append(handled, poller.updates[poller.i].update_id)
    /\ UNCHANGED <<upstream, arrived, crashes>>
    /\ UNCHANGED <<engVars, cacheVars, dispVars, hubVars, ordVars>>

\* What the handler logged is raised in the loop and ends the task.
PollAdvanceRaises ==
    /\ poller.pc = "handle"
    /\ proc["poll"].pc = "ret"
    /\ proc' = [proc EXCEPT !["poll"] = IdleProc]
    /\ poller' = IF proc["poll"].err = "" THEN AfterUpdate(poller)
                 ELSE [poller EXCEPT !.pc = "ended"]
    /\ handled' = Append(handled, poller.updates[poller.i].update_id)
    /\ UNCHANGED <<upstream, arrived, crashes>>
    /\ UNCHANGED <<chats, messages, sweep, now, telegramSent, nops>>
    /\ UNCHANGED <<cacheVars, dispVars, hubVars, ordVars>>

\* process_telegram_message has returned; it returns normally on every
\* path, its own except clauses log what was raised.
PollAdvance ==
    /\ poller.pc = "handle"
    /\ proc["poll"].pc = "ret"
    /\ proc' = [proc EXCEPT !["poll"] = IdleProc]
    /\ poller' = AfterUpdate(poller)
    /\ handled' = Append(handled, poller.updates[poller.i].update_id)
    /\ UNCHANGED <<upstream, arrived, crashes>>
    /\ UNCHANGED <<chats, messages, sweep, now, telegramSent, nops>>
    /\ UNCHANGED <<cacheVars, dispVars, hubVars, ordVars>>

\* A database operation of the handler raises (the connection is lost, the
\* statement fails): the exception is logged by the handler's except
\* clauses and the handler ends.
HDbError(p) ==
    /\ proc[p].pc \in {"lookup", "create", "message", "stamp"}
    /\ Finish(p, "database error")
    /\ UNCHANGED <<chats, messages, sweep, now, telegramSent, nops, cacheVars, notEng>>

\* The process dies and is started again: what was in memory is gone, the
\* loop starts with offset = 0; the tables and the platform keep theirs.
PollCrash ==
    /\ crashes < MaxCrashes
    /\ crashes' = crashes + 1
    /\ poller' = IdlePoller
    /\ proc' = [p \in Procs |-> IdleProc]
    /\ UNCHANGED <<upstream, arrived, handled>>
    /\ UNCHANGED <<chats, messages, sweep, now, telegramSent, nops>>
    /\ UNCHANGED <<cacheVars, dispVars, hubVars, ordVars>>

\* ======================================================================
\* Specifications
\* ======================================================================
\* The steps of process_telegram_message for a message that passed the
\* validation and carries text only.
Handling(p) ==
    \/ HLookup(p)
    \/ HCreate(p)
    \/ HMessage(p)
    \/ HStamp(p)
    \/ HBroadcast(p)
    \/ \E resp \in N8nResponses : HForward(p, resp)
    \/ RLookup(p)
    \/ RMessage(p)
    \/ RSend(p)
    \/ RBroadcast(p)
    \/ RHandover(p)
    \/ RBroadcastChat(p)
    \/ FLookup(p)
    \/ FSend(p)
    \/ FMessage(p)
    \/ FBroadcast(p)

Inbound(p) ==
    \/ \E uid \in UserIds, text \in TextBodies, file \in BOOLEAN :
          HStart(p, uid, text, file)
    \/ HFile(p)
    \/ Handling(p)

Endpoint(p) ==
    \/ \E uid \in UserIds : create_chat_endpoint(p, uid)
    \/ \E c \in 1..MaxChats, i \in OptBool, a \in OptBool : UStart(p, c, i, a)
    \/ UGet(p)
    \/ UCommit(p)
    \/ UBroadcast(p)
    \/ \E c \in 1..MaxChats : DStart(p, c)
    \/ DGet(p)
    \/ DCommit(p)
    \/ DBroadcast(p)
    \/ \E c \in 1..MaxChats, mtype \in {"question", "answer"} :
          SStart(p, c, "reply", mtype)
    \/ SMessage(p)
    \/ SBroadcast(p)
    \/ \E ok \in BOOLEAN : SSend(p, ok)
    \/ \E c \in 1..MaxChats : UpStart(p, c)
    \/ UpGet(p)
    \/ UpCommit(p)
    \/ UpMessage(p)
    \/ UpSend(p)
    \/ UpBroadcast(p)

Sweep == SweepSelect \/ SweepCommit \/ SweepBroadcast \/ SweepStats

\* The whole engine: the polling loop and a webhook delivery handle inbound
\* messages side by side with one operator request and the sweep. Nothing
\* in the program calls cache_service.connect(), so the cache stays
\* disconnected here and create_message never suspends on its delete.
Next ==
    \/ \E p \in Handlers : Inbound(p)
    \/ Endpoint("api1")
    \/ \E p \in Handlers \cup {"api1"} : Return(p)
    \/ Sweep
    \/ Tick

\* The engine fed by the polling loop alone, which handles one update at a
\* time: no two inbound handlers overlap.
NextPoll ==
    \/ Inbound("poll")
    \/ Endpoint("api1")
    \/ \E p \in {"poll", "api1"} : Return(p)
    \/ Sweep
    \/ Tick

\* The polling loop's handler and one operator request on the chats of a
\* database that has a chat, while time passes.
NextChat ==
    \/ Inbound("poll")
    \/ Endpoint("api1")
    \/ \E p \in {"poll", "api1"} : Return(p)
    \/ Tick

\* The ingestion loop with the upstream platform: updates arrive, the loop
\* fetches them and hands each to the inbound handler, the process may be
\* restarted.
NextIngest ==
    \/ \E k \in UpdateKinds : Arrive(k)
    \/ PollFetch
    \/ PollFetchFail
    \/ PollSleep
    \/ PollCall
    \/ PollSkip
    \/ PollAdvance
    \/ Handling("poll")
    \/ HDbError("poll")
    \/ PollCrash

\* The two background tasks side by side: the ingestion loop and the sweep,
\* each with the exceptions its cycle may meet.
PollStep ==
    \/ PollFetch
    \/ PollFetchFail
    \/ PollSleep
    \/ PollCall
    \/ PollSkip
    \/ PollAdvance
    \/ Handling("poll")
    \/ HDbError("poll")

SweepStep == Sweep \/ SweepFail

NextLoops ==
    \/ \E k \in UpdateKinds : Arrive(k)
    \/ PollStep
    \/ SweepStep
    \/ Tick

\* The process shuts down. lifespan keeps no reference to the two tasks and
\* after its yield only logs: there is no stop flag that the loops test and
\* no await of their end. The tasks end where the runtime ends them, at the
\* await each is suspended in, with the coroutine the loop awaits.
Shutdown ==
    /\ poller.pc # "cancelled"
    /\ poller' = [poller EXCEPT !.pc = "cancelled"]
    /\ sweep' = [sweep EXCEPT !.pc = "cancelled"]
    /\ proc' = [proc EXCEPT !["poll"] = IdleProc]
    /\ UNCHANGED <<upstream, arrived, handled, crashes>>
    /\ UNCHANGED <<chats, messages, now, telegramSent, nops>>
    /\ UNCHANGED <<cacheVars, dispVars, hubVars, ordVars>>

NextStop ==
    \/ NextLoops
    \/ Shutdown

\* The event loop runs a task that is ready: neither background task waits
\* forever at a step it can take.
FairLoops == WF_vars(PollStep) /\ WF_vars(SweepStep)

\* The message cache with a live connection: readers of a chat's message
\* list beside writers of it.
Reading(p) == GStart(p, 1) \/ GCacheGet(p) \/ GQuery(p) \/ GSet(p)

Writing(p) ==
    \/ SStart(p, 1, "reply", "answer")
    \/ SMessage(p)
    \/ CreateMessageDelete(p)
    \/ SBroadcast(p)
    \/ \E ok \in BOOLEAN : SSend(p, ok)

NextCache ==
    \/ CacheConnect
    \/ \E key \in CacheKeys : CacheExpire(key)
    \/ \E p \in Operators : Reading(p)
    \/ \E p \in Operators : Writing(p)
    \/ \E p \in Operators : Return(p)

\* The list of chats and its cache entry: get_chats beside an operator's
\* update_chat, with a cache that may be connected.
ListReading(p) == LStart(p) \/ LCacheGet(p) \/ LQuery(p) \/ LSet(p)

Updating(p) ==
    \/ \E i \in OptBool, a \in OptBool : UStart(p, 1, i, a)
    \/ UGet(p)
    \/ UCommit(p)
    \/ UBroadcast(p)

NextList ==
    \/ CacheConnect
    \/ \E key \in CacheKeys : CacheExpire(key)
    \/ \E p \in Operators : ListReading(p)
    \/ \E p \in Operators : Updating(p)
    \/ \E p \in Operators : Return(p)

\* Rows are inserted and the SELECT of get_messages reads a chat's rows.
NextOrder ==
    \/ \E c \in 1..MaxChats, t \in 0..MaxStamp : InsertStamped(c, t)
    \/ \E c \in 1..MaxChats : SelectOrdered(c)

\* The state after construction: no coroutine runs, the cache is not
\* connected, the dispatcher's circuit is closed and the hub is empty.
InitProgram ==
    /\ proc = [p \in Procs |-> IdleProc]
    /\ sweep = IdleSweep
    /\ now = 0
    /\ telegramSent = {}
    /\ nops = 0
    /\ redis = FALSE
    /\ cache = [k \in CacheKeys |-> Absent]
    /\ failure_count = 0
    /\ circuit_open = FALSE
    /\ caller = [c \in Callers |-> IdleCaller]
    /\ dcalls = 0
    /\ consec = 0
    /\ totalFails = 0
    /\ active_connections = <<>>
    /\ bc = IdleBroadcast
    /\ broken = {}
    /\ everConnected = {}
    /\ stalled = {}
    /\ handlers = {}
    /\ nbroadcasts = 0
    /\ poller = IdlePoller
    /\ upstream = <<>>
    /\ arrived = 0
    /\ handled = <<>>
    /\ crashes = 0
    /\ stamped = <<>>
    /\ message_list = <<>>

\* The tables of a fresh database.
Init ==
    /\ chats = <<>>
    /\ messages = <<>>
    /\ InitProgram

\* A database in which alice has written once: the chat and the message
\* process_telegram_message leaves behind.
InitCache ==
    /\ chats = << [NewChat(1, [name |-> "alice", tg |-> 1])
                     EXCEPT !.last_client_message_at = 0] >>
    /\ messages = << [id |-> 1, chat_id |-> 1, message |-> "hello",
                      message_type |-> "question"] >>
    /\ InitProgram

\* A database in which alice has a chat with one message: the AI answers or
\* a manager is awaited, and an operator has hidden the chat or not.
ExistingChats ==
    { [NewChat(1, [name |-> "alice", tg |-> 1])
         EXCEPT !.ai = a, !.waiting = ~a, !.hidden = h,
                !.last_client_message_at = 0] : a \in BOOLEAN, h \in BOOLEAN }

InitChat ==
    /\ \E row \in ExistingChats : chats = <<row>>
    /\ messages = << [id |-> 1, chat_id |-> 1, message |-> "hello",
                      message_type |-> "question"] >>
    /\ InitProgram

Spec == Init /\ [][Next]_vars
SpecPoll == Init /\ [][NextPoll]_vars
SpecIngest == Init /\ [][NextIngest]_vars
SpecChat == InitChat /\ [][NextChat]_vars
SpecCache == InitCache /\ [][NextCache]_vars
SpecList == InitCache /\ [][NextList]_vars
SpecOrder == Init /\ [][NextOrder]_vars
SpecLoops == Init /\ [][NextLoops]_vars /\ FairLoops
SpecDisp == Init /\ [][NextDisp]_vars
SpecHub == Init /\ [][NextHub]_vars
SpecStall == Init /\ [][NextStall]_vars /\ FairBroadcast
SpecWs == Init /\ [][NextWs]_vars
SpecStop == Init /\ [][NextStop]_vars

\* ======================================================================
\* Properties of the circuit-breaking dispatcher (under SpecDisp)
\* ======================================================================

\* C6: once max_retries process_message calls have failed with no success
\* in between, the circuit is open; and a call that finds the circuit open
\* returns the fallback payload, success = false, without a single attempt
\* on the network.
C6_CircuitOpensAfterKFailures ==
    /\ consec >= max_retries => circuit_open
    /\ \A c \in Callers :
          (caller[c].pc = "done" /\ caller[c].saw_open) =>
             /\ caller[c].attempts = 0
             /\ caller[c].result = get_fallback_response
             /\ ~caller[c].result.success

\* Three calls in a row have failed and the next one was short-circuited.
C6_Witness ==
    /\ consec = max_retries
    /\ circuit_open
    /\ \E c \in Callers : caller[c].pc = "done" /\ caller[c].saw_open

\* C7: a successful call leaves failure_count = 0 and the circuit closed,
\* so failure_count is the number of failures since the last success and
\* the circuit is open only when max_retries failures have come with no
\* success between them.
C7_SuccessResetsCounter ==
    /\ failure_count = consec
    /\ circuit_open => consec >= max_retries

\* max_retries failures and more have happened in all, a success between
\* them, and the circuit is closed with the counter below the threshold.
C7_Witness ==
    /\ totalFails > max_retries
    /\ consec > 0
    /\ failure_count < max_retries
    /\ ~circuit_open

\* The fields of a genuine success payload.
PayloadFields == {"success", "answer", "confidence", "metadata"}

\* C15: every call of process_message that has ended has returned a payload
\* with exactly the fields success, answer, confidence and metadata, whether
\* the circuit was open, the attempts failed or the body was parsed; and a
\* payload returned for a failure or a short circuit has success = false.
C15_AlwaysAPayload ==
    \A c \in Callers :
       caller[c].pc = "done" =>
          /\ DOMAIN caller[c].result = PayloadFields
          /\ caller[c].result.success \in BOOLEAN
          /\ (caller[c].saw_open \/ caller[c].bumps > 0) =>
                /\ ~caller[c].result.success
                /\ caller[c].result = get_fallback_response
          /\ DOMAIN get_fallback_response = DOMAIN parse_response(caller[c].body)

\* Calls have ended in each way: short-circuited, failed on a timeout after
\* retries, and with a parsed body.
C15_Witness ==
    /\ \E c \in Callers : caller[c].pc = "done" /\ caller[c].saw_open
    /\ \E c \in Callers :
          /\ caller[c].pc = "done"
          /\ caller[c].body.kind = "dict"
          /\ caller[c].result.success
    /\ totalFails >= max_retries

\* C16: a dispatch makes at most three attempts, every attempt that was
\* followed by another failed on a timeout or a connect error, an attempt
\* that met an HTTP error status was the last one, and the dispatch has
\* added to failure_count at most once.
C16_BoundedRetries ==
    \A c \in Callers :
       /\ caller[c].attempts = Len(caller[c].log)
       /\ caller[c].attempts <= 3
       /\ \A k \in 1..Len(caller[c].log) :
             /\ k < Len(caller[c].log) => caller[c].log[k] \in {"timeout", "connect"}
             /\ caller[c].log[k] = "status" => k = Len(caller[c].log)
       /\ caller[c].bumps <= 1

\* One dispatch has used all three attempts and failed, another has ended
\* at once on an HTTP error status.
C16_Witness ==
    /\ \E c \in Callers :
          /\ caller[c].pc = "done"
          /\ caller[c].attempts = 3
          /\ caller[c].bumps = 1
    /\ \E c \in Callers :
          /\ caller[c].pc = "done"
          /\ caller[c].log = <<"status">>

\* A body parse_response is to read an answer from: an object with an
\* answer-like field, or a bare string.
CarriesAnswer(body) ==
    \/ body.kind = "str"
    \/ /\ body.kind = "dict"
       /\ \/ Truthy(body.answer)
          \/ Truthy(body.text)
          \/ Truthy(body.response)

\* C17: a parsed body gives success = true exactly when it is an object
\* with an answer, text or response field or a bare string; every other
\* body gives the fallback payload.
C17_ParseOnlyAnswers ==
    \A c \in Callers :
       (caller[c].pc = "done" /\ caller[c].body # NoBody) =>
          /\ caller[c].result.success <=> CarriesAnswer(caller[c].body)
          /\ ~CarriesAnswer(caller[c].body) =>
                caller[c].result = get_fallback_response

\* C18: a dispatch whose response body cannot be interpreted counts as a
\* failure: the step that ends it returns the fallback and adds one to
\* failure_count.
C18_MalformedBodyCountsAsFailure ==
    [][\A c \in Callers :
         ( /\ caller[c].pc = "post"
           /\ caller'[c].pc = "done"
           /\ caller'[c].body.kind \in {"invalid", "list", "number"} )
         => /\ caller'[c].result = get_fallback_response
            /\ failure_count' = failure_count + 1]_vars

\* ======================================================================
\* Properties of the broadcast hub (under SpecHub)
\* ======================================================================

\* C8: when a broadcast that met a failing observer and a healthy one has
\* ended, the healthy one has the event and no observer whose send failed
\* is left in active_connections.
C8_FailingObserverRemoved ==
    (bc.pc = "done" /\ bc.failed # {} /\ bc.delivered # {}) =>
       bc.failed \cap Range(active_connections) = {}

\* ======================================================================
\* Properties of the message cache (under SpecCache)
\* ======================================================================

\* The operator requests whose create_message has returned, and the row
\* each has written.
Returned(p) ==
    /\ proc[p].op = "send_message"
    /\ proc[p].pc \in {"s_bc", "s_send", "ret"}
    /\ proc[p].created # 0

\* What a get_messages that starts now and runs alone would return: the
\* cached list when there is a non-empty one, else the rows of the table.
ReadNow(chat_id) ==
    LET v == CacheGet(<<"messages", chat_id>>) IN
      IF v.present /\ v.value # <<>> THEN v.value
      ELSE SelectMessages(messages, chat_id)

\* C9: once create_message has returned for an outbound message, a read of
\* the chat's message list contains that message: the cache entry is absent
\* or holds the list after the write.
C9_NoStaleListAfterWrite ==
    \A p \in Operators :
       Returned(p) =>
          MessageDict(messages[proc[p].created]) \in Range(ReadNow(proc[p].chat_id))

\* ======================================================================
\* Properties of the conversation engine (under Spec and SpecPoll)
\* ======================================================================

\* C1: inbound handlers that meet the same unseen external id never create
\* two chats for it: no two handlers have each come back from create_chat
\* with a row for the same user_id.
C1_OneChatPerExternalId ==
    \A p \in Handlers, q \in Handlers :
       (p # q /\ proc[p].madeChat /\ proc[q].madeChat) =>
          proc[p].chat.user_id # proc[q].chat.user_id

\* C2: no chat has ai and waiting both true.
C2_NeverAiAndWaiting ==
    \A i \in ChatIds : ~(chats[i].ai /\ chats[i].waiting)

\* An operator update has switched a chat's ai on again after a handover
\* had switched it off.
C2_Witness ==
    \E p \in Procs :
       /\ proc[p].op = "update_chat"
       /\ proc[p].pc = "u_bc"
       /\ proc[p].ai_arg = {TRUE}
       /\ chats[proc[p].chat_id].ai
       /\ ~chats[proc[p].chat_id].waiting
       /\ \E m \in Range(messages) :
             m.chat_id = proc[p].chat_id /\ m.message_type = "answer"

\* C3: the step in which an operator's answer or an operator's file upload
\* commits its message leaves the chat's ai flag false.
C3_OperatorSendSwitchesAiOff ==
    [][\A p \in Procs :
         ( \/ /\ proc[p].pc = "s_message"
               /\ proc[p].mtype = "answer"
               /\ proc'[p].pc = "s_bc"
            \/ /\ proc[p].pc = "up_message"
               /\ proc'[p].pc = "up_send" )
         => ~chats'[proc[p].chat_id].ai]_vars

\* C4: when an inbound message has moved a selected chat's
\* last_client_message_at to within the silence threshold, the sweep's
\* commit for that chat leaves its ai and waiting as they are.
C4_InboundWinsRace ==
    [][(sweep.pc = "loop" /\ sweep'.pc = "bc") =>
         LET c == sweep'.cur IN
           (chats[c].last_client_message_at >= now - SilenceThreshold) =>
              /\ chats'[c].ai = chats[c].ai
              /\ chats'[c].waiting = chats[c].waiting]_vars

\* What the sweep is to select: a chat awaiting a manager whose last client
\* message is older than the cutoff.
AwaitingSince(c, cutoff) ==
    /\ c.waiting
    /\ ~c.ai
    /\ c.last_client_message_at # NULL
    /\ c.last_client_message_at < cutoff

\* No coroutine was running when the sweep selected and none has started
\* since: the sweep has run without concurrent writes.
SweepRanAlone ==
    /\ sweep.pc = "stats"
    /\ sweep.quiet
    /\ nops = sweep.nopsAtSelect

\* C5: when a sweep has run alone, the chats it selected are exactly those
\* that were awaiting a manager with a last client message older than the
\* threshold, each of them has ai = true and waiting = false and one
\* chat_update event, every other chat is as it was, no message was created
\* and nothing was sent to Telegram.
C5_SweepFrameEffect ==
    SweepRanAlone =>
       /\ Len(chats) = Len(sweep.snap)
       /\ sweep.sel = {i \in ChatIds :
                         AwaitingSince(sweep.snap[i], sweep.ten_minutes_ago)}
       /\ \A i \in sweep.sel :
             /\ chats[i].ai
             /\ ~chats[i].waiting
             /\ Cardinality({k \in 1..Len(sweep.ev) :
                    sweep.ev[k] = ChatUpdateEvent(i, TRUE, FALSE)}) = 1
       /\ Len(sweep.ev) = Cardinality(sweep.sel)
       /\ \A i \in ChatIds \ sweep.sel : chats[i] = sweep.snap[i]
       /\ messages = sweep.preMessages
       /\ telegramSent = sweep.preSent

\* A sweep has run alone over two chats and reactivated one of them.
C5_Witness ==
    /\ SweepRanAlone
    /\ sweep.sel # {}
    /\ ChatIds \ sweep.sel # {}

\* The handler has created the chat for a first text message and has not
\* yet stamped it.
FirstContactCreated(p) ==
    /\ proc[p].op = "inbound"
    /\ proc[p].madeChat
    /\ ~proc[p].file
    /\ proc[p].pc \in {"message", "stamp"}

\* The handler of a first text message has made its broadcasts and has not
\* yet heard from the automation webhook.
FirstContactHandled(p) ==
    /\ proc[p].op = "inbound"
    /\ proc[p].madeChat
    /\ ~proc[p].file
    /\ proc[p].pc \in {"forward", "ret"}
    /\ proc[p].resp = NoResp
    /\ proc[p].err = ""

\* C10: the handler of the first text message from an unseen id comes back
\* from create_chat with a chat for that id that has ai = true, waiting =
\* false and hidden = false; when it has made its broadcasts there is one
\* 'question' message with the received body in that chat, and it has
\* broadcast one new_message and one chat_update event.
C10_FirstContact ==
    \A p \in Handlers :
       /\ FirstContactCreated(p) =>
             /\ proc[p].chat.user_id = proc[p].uid
             /\ proc[p].chat.ai
             /\ ~proc[p].chat.waiting
             /\ ~proc[p].chat.hidden
       /\ FirstContactHandled(p) =>
             /\ proc[p].chat.id \in ChatIds
             /\ chats[proc[p].chat.id].user_id = proc[p].uid
             /\ Cardinality({k \in 1..Len(messages) :
                    /\ messages[k].chat_id = proc[p].chat.id
                    /\ messages[k].message_type = "question"
                    /\ messages[k].message = proc[p].text}) = 1
             /\ Cardinality({k \in 1..Len(proc[p].ev) :
                    proc[p].ev[k] = NewMessageEvent(proc[p].chat.id, proc[p].text,
                                                    "question")}) = 1
             /\ Cardinality({k \in 1..Len(proc[p].ev) :
                    proc[p].ev[k].type = "new_message"}) = 1
             /\ Cardinality({k \in 1..Len(proc[p].ev) :
                    /\ proc[p].ev[k].type = "chat_update"
                    /\ proc[p].ev[k].chat_id = proc[p].chat.id}) = 1

\* The first message of alice has been handled up to its broadcasts.
C10_Witness ==
    /\ FirstContactHandled("poll")
    /\ proc["poll"].pc = "forward"
    /\ proc["poll"].text = "hello"
    /\ Len(chats) = 1

\* ======================================================================
\* Properties of the ingestion loop (under SpecIngest)
\* ======================================================================

\* The ids of the first n updates of the batch.
BatchIds(n) == [k \in 1..n |-> poller.updates[k].update_id]

\* The last n entries of the history.
LastHandled(n) == SubSeq(handled, Len(handled) - n + 1, Len(handled))

\* C11: while the loop is in a batch, the updates before its index have
\* been handled in the order of the batch, one after the other, and nothing
\* else since the fetch; the offset is one more than the id of the update
\* handled last; and the handler that runs is the one for the update at the
\* index.
C11_InOrderCursorPerEvent ==
    poller.pc = "handle" =>
       /\ poller.i \in 1..Len(poller.updates)
       /\ \A k \in 1..(Len(poller.updates) - 1) :
             poller.updates[k].update_id < poller.updates[k + 1].update_id
       /\ Len(handled) >= poller.i - 1
       /\ LastHandled(poller.i - 1) = BatchIds(poller.i - 1)
       /\ poller.i > 1 =>
             poller.offset = poller.updates[poller.i - 1].update_id + 1
       /\ ~Free("poll") =>
             /\ proc["poll"].uid = poller.updates[poller.i].uid
             /\ proc["poll"].text = poller.updates[poller.i].text

\* The first update of a batch of two has been handled and the handler of
\* the second is running.
C11_Witness ==
    /\ poller.pc = "handle"
    /\ Len(poller.updates) = 2
    /\ poller.i = 2
    /\ poller.offset = 2
    /\ handled = <<1>>
    /\ ~Free("poll")

\* C12: the offset moves past an update whose handler ran only when the
\* handler has stored the update's message without an error.
C12_CursorOnlyAfterPersisted ==
    [][(poller.pc = "handle" /\ proc["poll"].pc = "ret"
          /\ poller'.offset # poller.offset)
       => /\ proc["poll"].err = ""
          /\ proc["poll"].created # 0]_vars

\* C13: across a restart the updates are handled once each and in the order
\* of their ids: none is handled again and none is passed over.
C13_ResumeAfterLastProcessed ==
    \A k \in 1..(Len(handled) - 1) : handled[k + 1] = handled[k] + 1

\* C14: a failed fetch leaves the offset, handles no update and starts no
\* handler; the loop sleeps and then fetches again with the same offset.
C14_FailedFetchKeepsCursor ==
    [][/\ (poller.pc = "fetch" /\ poller'.pc = "backoff") =>
            /\ poller'.offset = poller.offset
            /\ handled' = handled
            /\ upstream' = upstream
            /\ proc' = proc
            /\ messages' = messages
       /\ poller.pc = "backoff" =>
            /\ poller'.offset = poller.offset \/ crashes' # crashes
            /\ poller'.pc \in {"backoff", "fetch"}
            /\ handled' = handled]_vars

\* A fetch has failed after the offset had moved, with an update waiting.
C14_Witness ==
    /\ poller.pc = "backoff"
    /\ poller.offset = 2
    /\ upstream # <<>>
    /\ crashes = 0

\* The automation webhook has failed for the handler's message: it timed
\* out, answered another status than 200, or answered no JSON.
ForwardFailed(p) ==
    /\ proc[p].op = "inbound"
    /\ proc[p].resp # NoResp
    /\ proc[p].resp.status # "200" \/ ~proc[p].resp.json

\* C20: when the automation webhook has failed, the client's message is in
\* the table, the handler's three broadcasts have been made, the handler
\* goes on without an error to its end, and the loop is still in its batch,
\* at this update, to go on to the next.
C20_BackendFailureDoesNotFailInbound ==
    ForwardFailed("poll") =>
       /\ \E k \in 1..Len(messages) :
             /\ messages[k].chat_id = proc["poll"].ev[1].chat_id
             /\ messages[k].message_type = "question"
             /\ messages[k].message = proc["poll"].text
       /\ SubSeq(proc["poll"].ev, 1, 3) =
             << NewMessageEvent(proc["poll"].ev[1].chat_id, proc["poll"].text,
                                "question"),
                proc["poll"].ev[2], StatsEvent >>
       /\ proc["poll"].ev[2].type = "chat_update"
       /\ proc["poll"].err = ""
       /\ proc["poll"].pc \in {"f_lookup", "f_send", "f_message", "f_bc", "ret"}
       /\ poller.pc = "handle"
       /\ poller.updates[poller.i].text = proc["poll"].text

\* The webhook timed out for the first update of a batch of two and the
\* loop has gone on to handle the second.
C20_Witness ==
    /\ handled = <<1>>
    /\ poller.pc = "handle"
    /\ poller.i = 2
    /\ ~Free("poll")
    /\ \E m \in Range(messages) : m.message = FallbackText

\* ======================================================================
\* The decision to forward (under SpecPoll)
\* ======================================================================

\* The handler has forwarded its message to the automation webhook, or is
\* about to.
Dispatched(p) == proc[p].pc = "forward" \/ proc[p].resp # NoResp

\* The handler has stored its message, made its broadcasts and decided.
Decided(p) == proc[p].op = "inbound" /\ Len(proc[p].ev) >= 3

\* Once the handler has decided, the message is forwarded exactly when the
\* handler's chat object, whose ai flag the "chat_update" broadcast
\* carries, has ai set and waiting not set; a message that is not forwarded
\* ends the handler with its three broadcasts and no message of the
\* automation after the client's.
DecisionFollowsFlags ==
    Decided("poll") =>
       /\ Dispatched("poll") <=> proc["poll"].ev[2].ai_enabled = {TRUE}
       /\ proc["poll"].pc = "forward" =>
             proc["poll"].chat.ai /\ ~proc["poll"].chat.waiting
       /\ ~Dispatched("poll") =>
             /\ ~(proc["poll"].chat.ai /\ ~proc["poll"].chat.waiting)
             /\ proc["poll"].pc = "ret"
             /\ Len(proc["poll"].ev) = 3
             /\ messages[proc["poll"].created].message_type = "question"
             /\ \A k \in (proc["poll"].created + 1)..Len(messages) :
                   messages[k].message \notin {AnswerText, FallbackText}

\* C19: the chat object the handler decides on is the row as it is in the
\* table when the commit that follows the storing of the message is made,
\* and the message is forwarded exactly when that object has ai set and
\* waiting not set; otherwise the handler ends without a forward and
\* without a message of the automation.
C19_DispatchIffAiAndNotWaiting ==
    /\ []DecisionFollowsFlags
    /\ [][(proc["poll"].pc = "stamp" /\ proc'["poll"].pc = "bc") =>
            /\ proc'["poll"].chat = chats'[proc'["poll"].chat.id]
            /\ messages[proc["poll"].created].message = message_text(proc["poll"])
            /\ messages[proc["poll"].created].chat_id = proc'["poll"].chat.id]_vars
    /\ [][proc["poll"].pc = "bc" => proc'["poll"].chat = proc["poll"].chat]_vars

\* A message for a chat an operator has taken over was stored and not
\* forwarded.
C19_Witness ==
    /\ Decided("poll")
    /\ ~Dispatched("poll")
    /\ ~proc["poll"].file
    /\ proc["poll"].chat.waiting
    /\ proc["poll"].created # 0

\* ======================================================================
\* Handover requested by the automation (under SpecIngest)
\* ======================================================================

\* The handler has ended after a response of the automation webhook that
\* was read as JSON and asks for a manager.
HandoverRequested(p) ==
    /\ proc[p].op = "inbound"
    /\ proc[p].pc = "ret"
    /\ proc[p].resp.status = "200"
    /\ proc[p].resp.json
    /\ proc[p].resp.manager

\* C21: when the response of the automation asks for a manager, the
\* handler ends with the chat of the message at ai off and waiting on and
\* with a "chat_update" broadcast of these values, whatever the answer in
\* the response is, the empty answer included.
C21_HandoverRequestHonoured ==
    HandoverRequested("poll") =>
       \E i \in MatchingChats(proc["poll"].uid) :
          /\ ~chats[i].ai
          /\ chats[i].waiting
          /\ ChatUpdateEvent(i, FALSE, TRUE) \in Range(proc["poll"].ev)

\* ======================================================================
\* The operator's requests on a chat (under SpecPoll)
\* ======================================================================

\* update_chat has ended without an exception for a request that names a
\* handover: ai_enabled, or is_awaiting_manager_confirmation alone.
HandoverSet(p) ==
    /\ proc[p].op = "update_chat"
    /\ proc[p].pc = "ret"
    /\ proc[p].err = ""
    /\ proc[p].ai_arg # {} \/ proc[p].iamc_arg # {}

\* The handover the request asks for: waiting for a manager or not.
HandoverArg(r) == IF r.ai_arg # {} THEN ~Val(r.ai_arg) ELSE Val(r.iamc_arg)

\* C22: a request that sets the handover to x leaves the row, as committed
\* and refreshed, with waiting = x and ai = not x, and its "chat_update"
\* broadcast carries ai_enabled = not x and awaiting = x.
C22_SetHandover ==
    HandoverSet("api1") =>
       /\ proc["api1"].chat.waiting = HandoverArg(proc["api1"])
       /\ proc["api1"].chat.ai = ~HandoverArg(proc["api1"])
       /\ ChatUpdateEvent(proc["api1"].chat.id, ~HandoverArg(proc["api1"]),
                          HandoverArg(proc["api1"])) \in Range(proc["api1"].ev)

\* ======================================================================
\* Requests on a chat that exists (under SpecChat)
\* ======================================================================

\* The step in which the handler of a text message, having stored the
\* message for a chat it found, commits the chat.
InboundCommits(p) ==
    /\ proc[p].op = "inbound"
    /\ ~proc[p].file
    /\ ~proc[p].madeChat
    /\ proc[p].pc = "stamp"
    /\ proc'[p].pc = "bc"

\* C23: the commit of the handler of a text message to a chat that exists
\* leaves the chat with hidden off and last_client_message_at at the time
\* of the commit, and leaves ai, waiting and
\* is_awaiting_manager_confirmation as they are.
C23_InboundUnhidesAndStamps ==
    [][InboundCommits("poll") =>
         /\ ~chats'[proc["poll"].chat.id].hidden
         /\ chats'[proc["poll"].chat.id].last_client_message_at = now
         /\ chats'[proc["poll"].chat.id].ai = chats[proc["poll"].chat.id].ai
         /\ chats'[proc["poll"].chat.id].waiting =
               chats[proc["poll"].chat.id].waiting
         /\ chats'[proc["poll"].chat.id].is_awaiting_manager_confirmation =
               chats[proc["poll"].chat.id].is_awaiting_manager_confirmation]_vars

\* The step in which hide_chat_endpoint commits.
HideCommits(p) ==
    /\ proc[p].op = "hide_chat"
    /\ proc[p].pc = "d_commit"
    /\ proc'[p].pc = "d_bc"

SentMessageKept(p) ==
    /\ proc[p].created \in 1..Len(messages)
    /\ messages[proc[p].created].chat_id = proc[p].chat_id
    /\ messages[proc[p].created].message = proc[p].text
    /\ messages[proc[p].created].message_type = proc[p].mtype
    /\ proc[p].ev = <<NewMessageEvent(proc[p].chat_id, proc[p].text, proc[p].mtype)>>

\* C25: when send_message is about to deliver to the platform, its message
\* is in the table and has been broadcast and nothing has been sent yet;
\* and when the one delivery it makes has failed, the message is still in
\* the table and broadcast and the request ends without an error.
C25_SendCommitsBeforeDelivery ==
    proc["api1"].op = "send_message" =>
       /\ proc["api1"].sends <= 1
       /\ proc["api1"].pc = "s_send" =>
             SentMessageKept("api1") /\ proc["api1"].sends = 0
       /\ proc["api1"].sends = 1 =>
             /\ proc["api1"].pc = "ret"
             /\ proc["api1"].err = ""
             /\ SentMessageKept("api1")

\* The delivery of an operator's answer has failed and the request has
\* ended.
C25_Witness ==
    /\ proc["api1"].op = "send_message"
    /\ proc["api1"].pc = "ret"
    /\ proc["api1"].sends = 1
    /\ ~proc["api1"].telegram_success
    /\ telegramSent = {}

\* An operator's request that names a chat has ended and there is no chat
\* of that id.
EndedOnMissingChat(p) ==
    /\ proc[p].op \in {"update_chat", "hide_chat", "send_message", "upload_file"}
    /\ proc[p].pc = "ret"
    /\ proc[p].chat_id \notin ChatIds

\* C26: a request that names a chat that does not exist is answered with
\* the status 404, not with the 500 of an internal error.
C26_MissingChatIsNotFound ==
    EndedOnMissingChat("api1") => proc["api1"].err = "404"

\* ======================================================================
\* The cached list of chats (under SpecList)
\* ======================================================================

\* What a get_chats that starts now and runs alone would return: the cached
\* list when there is a non-empty one, else the rows of the table.
ChatsReadNow ==
    LET v == CacheGet(<<"chats", 0>>) IN
      IF v.present /\ v.value # <<>> THEN v.value ELSE SelectChats

\* update_chat has committed and ended without an exception.
Updated(p) ==
    /\ proc[p].op = "update_chat"
    /\ proc[p].pc = "ret"
    /\ proc[p].err = ""

\* C27: once update_chat has returned, a read of the list of chats gives the
\* chat as the request left it: the cache entry of the list is absent or
\* holds the list after the write.
C27_NoStaleChatsAfterWrite ==
    \A p \in Operators :
       Updated(p) => ChatDict(chats[proc[p].chat_id]) \in Range(ChatsReadNow)

\* ======================================================================
\* The order of a chat's messages (under SpecOrder)
\* ======================================================================

\* C28: the rows a SELECT of get_messages returns are in the order of
\* created_at, and rows with the same created_at are in the order of their
\* ids.
C28_OrderedByTimestampThenId ==
    \A k \in 1..(Len(message_list) - 1) :
       \/ message_list[k].created_at < message_list[k + 1].created_at
       \/ /\ message_list[k].created_at = message_list[k + 1].created_at
          /\ message_list[k].id < message_list[k + 1].id

\* ======================================================================
\* The background tasks go on after an exception (under SpecLoops)
\* ======================================================================

\* The handler the loop called has ended on an exception.
HandlerRaised ==
    /\ poller.pc = "handle"
    /\ proc["poll"].pc = "ret"
    /\ proc["poll"].err # ""

\* The loop is past the call: at its next update, its sleep or its next
\* fetch.
LoopWentOn ==
    /\ poller.pc \in {"handle", "sleep", "fetch"}
    /\ Free("poll")

\* C29: a failed fetch leads to the next fetch, a handler that ended on an
\* exception leads to the loop going on with its next update or its next
\* cycle, and a sweep that has begun, whether it fails or not, leads to the
\* sweep's sleep before its next cycle.
C29_TasksSurviveExceptions ==
    /\ (poller.pc = "backoff") ~> (poller.pc = "fetch")
    /\ HandlerRaised ~> LoopWentOn
    /\ (sweep.pc # "idle") ~> (sweep.pc = "idle")

\* The loop is at the second update of its batch after the handler of the
\* first ended on an exception.
C29_Witness ==
    /\ poller.pc = "handle"
    /\ poller.i = 2
    /\ handled = <<1>>
    /\ messages = <<>>
    /\ poller.updates[1].text # ""

\* The handler the loop awaits is at its dispatch to the automation, and the
\* batch holds a further update behind the one being handled.
DispatchPending ==
    /\ poller.pc = "handle"
    /\ proc["poll"].pc = "forward"
    /\ poller.i < Len(poller.updates)

\* The loop's own steps out of the update at i: the offset moves past it,
\* the handler is called for the next update.
LoopGoesOn == PollAdvance \/ PollCall \/ PollSkip

\* C30: a slow dispatch to the automated backend does not delay the
\* ingestion of the next inbound event: while the dispatch for the update at
\* i is pending, the loop can take its next step (move the offset past the
\* update, call the handler for the update at i + 1).
C30_DispatchDoesNotDelayIngestion ==
    DispatchPending => ENABLED LoopGoesOn

\* The observers a finished broadcast had to reach: in the list when it
\* started, with a transport that neither failed nor stalled.
SoundAtStart == bc.atStart \ (broken \cup stalled)

\* C31: when one observer's send never completes, broadcast still delivers
\* the event to every other observer and returns: a broadcast that has
\* started ends, and at its end every sound observer has the event.
C31_StalledObserverDoesNotBlock ==
    /\ (bc.pc = "loop") ~> (bc.pc = "done")
    /\ [](bc.pc = "done" => SoundAtStart \subseteq bc.delivered)

\* The observers in the list from the start of the broadcast on: a handle
\* connects once, so one that was in at the start and is in now never left.
MembersThroughout == bc.atStart \cap Range(active_connections)

\* C34: every observer that is in the hub for the whole of a broadcast call
\* has a delivery attempted, whatever connects or disconnects meanwhile.
C34_MembersThroughoutAreAttempted ==
    bc.pc = "done" => MembersThroughout \subseteq bc.attempted

\* C39: the membership list holds live observers only: a handle whose
\* endpoint has ended, on a disconnect or on an error after a frame, is not
\* in active_connections.
C39_OnlyLiveObservers ==
    Range(active_connections) \subseteq handlers

\* The updates of the batch in hand that carry a photo and that the loop
\* has gone past.
PhotosHandled ==
    { j \in 1..Len(poller.updates) :
        /\ poller.updates[j].photo
        /\ poller.updates[j].update_id \in Range(handled) }

\* C32: an inbound event with an attachment and no text is stored as a
\* client message with the placeholder body in the sender's chat; it is not
\* skipped.
C32_AttachmentIsPersisted ==
    \A j \in PhotosHandled :
       \E k \in 1..Len(messages) :
          /\ messages[k].message = FileText("")
          /\ messages[k].message_type = "question"
          /\ chats[messages[k].chat_id].user_id = poller.updates[j].uid

\* C33: on shutdown the ingestion loop and the reactivation timer finish
\* the cycle they are in and then end: the loop is not stopped inside a
\* batch with updates still to handle, the timer not inside a sweep.
C33_ShutdownFinishesCycle ==
    poller.pc = "cancelled" =>
       /\ poller.updates = <<>>
       /\ sweep = [IdleSweep EXCEPT !.pc = "cancelled"]

\* The step in which handle_n8n_response stores the automation's answer, or
\* hands it to the platform for the end user.
AnswerAdded(p) ==
    \/ proc[p].pc = "r_message" /\ proc'[p].pc = "r_send"
    \/ proc[p].pc = "r_send" /\ proc'[p].pc = "r_bc"

\* C35: an automated answer is stored and sent only if the chat has ai on
\* and waiting off at that moment: after an operator has claimed the chat
\* during the dispatch, the late answer is not added.
C35_LateAnswerIsDropped ==
    [][\A p \in Handlers :
         AnswerAdded(p) =>
            /\ chats[proc[p].chat.id].ai
            /\ ~chats[proc[p].chat.id].waiting]_vars

\* The step in which caller c enters process_message.
Enters(c) ==
    /\ caller[c].pc \in {"idle", "done"}
    /\ dcalls' = dcalls + 1
    /\ caller'[c] # caller[c]

\* The step in which the network call of caller c returns a response.
Succeeds(c) ==
    /\ caller[c].pc = "post"
    /\ caller'[c].pc = "done"
    /\ caller'[c].log = Append(caller[c].log, "ok")

\* C36 as stated: once the circuit is open it stays open for the rest of
\* the process lifetime.
C36_OpenStaysOpen ==
    [][circuit_open => circuit_open']_vars

\* C36, amended: a call that enters while the circuit is open returns the
\* fallback without a network call, and an open circuit closes only in the
\* step in which a call that had passed the circuit check while the circuit
\* was closed gets its response; no other step closes it.
C36_OpenUntilEarlierCallSucceeds ==
    [][/\ \A c \in Callers :
            circuit_open /\ Enters(c) =>
               /\ caller'[c].pc = "done"
               /\ caller'[c].attempts = 0
               /\ caller'[c].result = get_fallback_response
               /\ circuit_open'
       /\ circuit_open /\ ~circuit_open' =>
            \E c \in Callers : Succeeds(c) /\ ~caller[c].saw_open]_vars

\* The circuit is open, one call has been answered with the fallback at
\* the circuit check, and another call that entered earlier is still at
\* its network call.
C36_Witness ==
    /\ circuit_open
    /\ \E c, d \in Callers :
          /\ caller[c].pc = "done" /\ caller[c].saw_open
          /\ caller[d].pc = "post"

\* A chat that awaits a manager and has never had a client message.
AwaitingUnstamped(c) ==
    /\ c.waiting
    /\ ~c.ai
    /\ c.last_client_message_at = NULL

\* The commit of an operator's PUT /api/chats/{chat_id}.
OperatorUpdateCommits ==
    \E p \in Operators :
       /\ proc[p].op = "update_chat"
       /\ proc[p].pc = "u_commit"
       /\ proc'[p].pc = "u_bc"

\* C37: a chat that awaits a manager and whose last_client_message_at is
\* null is never reactivated by a sweep: while the timestamp is null, its
\* ai and waiting change only in the commit of an operator's update, never
\* in a step of the sweep.
C37_UnstampedNeverReactivated ==
    [][\A i \in ChatIds :
         /\ AwaitingUnstamped(chats[i])
         /\ chats'[i].ai \/ ~chats'[i].waiting
         => /\ sweep' = sweep
            /\ OperatorUpdateCommits]_vars

\* A sweep reactivates one chat, after the threshold has passed, while
\* another chat awaits a manager with a null timestamp.
C37_Witness ==
    /\ sweep.pc = "bc"
    /\ now > SilenceThreshold
    /\ sweep.sel # {}
    /\ \E i \in ChatIds : i \notin sweep.sel /\ AwaitingUnstamped(chats[i])

\* The events a step adds to a coroutine's broadcasts, given the sequence
\* before and after.
NewEvents(before, after) ==
    IF Len(after) > Len(before)
    THEN {after[k] : k \in (Len(before) + 1)..Len(after)}
    ELSE {}

\* The events the step broadcasts, from handlers, endpoints and the sweep.
Broadcasts ==
    UNION {NewEvents(proc[p].ev, proc'[p].ev) : p \in Procs}
       \cup NewEvents(sweep.ev, sweep'.ev)

\* C38: every chat_update event is a snapshot of the stored chat: its
\* ai_enabled is the row's ai and its is_awaiting_manager_confirmation is
\* the row's waiting, at the time of the broadcast, on every path.
C38_ChatUpdateIsSnapshot ==
    [][\A e \in Broadcasts :
         e.type = "chat_update" =>
            /\ e.ai_enabled = {chats[e.chat_id].ai}
            /\ e.is_awaiting_manager_confirmation = {chats[e.chat_id].waiting}]_vars

\* The steps of send_fallback_message that hand the notice to the platform
\* and that store it.
FallbackSent(p) == proc[p].pc = "f_send" /\ proc'[p].pc = "f_message"
FallbackStored(p) == proc[p].pc = "f_message" /\ proc'[p].created # proc[p].created

\* C40: when the dispatch fails, the fallback notice is sent to the external
\* party of the chat that received the inbound message, and stored as an
\* answer in that chat, no other.
C40_FallbackToSameChat ==
    [][\A p \in Handlers :
         /\ FallbackSent(p) =>
               telegramSent' = telegramSent \cup
                  {[to |-> telegram_chat_id(proc[p].uid), text |-> FallbackText]}
         /\ FallbackStored(p) =>
               /\ messages'[proc'[p].created].chat_id =
                     messages[proc[p].created].chat_id
               /\ messages'[proc'[p].created].message_type = "answer"]_vars
====
